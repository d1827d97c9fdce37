--------------------------- MODULE SettingsProofs ----------------------------
(***************************************************************************)
(* Theorems about Settings, for all files, environments and sequences of   *)
(* calls.                                                                  *)
(***************************************************************************)
EXTENDS Settings, TLAPS

(* What the lines up to n of a secrets file have left in the pointer of k. *)
Pointer(file, n, k) ==
    IF Setters(file, n, k) = {} THEN Unset
    ELSE file[LastOf(Setters(file, n, k))].value

(* How far reading the configuration is, and what it has achieved.         *)
ConfigInv ==
    /\ pc = "open" => config # NoFile /\ at = 1
    /\ pc = "config" =>
          /\ config \in ConfigFile
          /\ at \in 1 .. Len(config) + 1
    /\ pc \in {"initialize", "secrets"} /\ caller = "config"
          => config = Absent
    /\ caller = "program" => pc \in {"initialize", "secrets", "ready"}

SettingsInv ==
    \A k \in Setting :
        settings[k] =
          IF pc = "ready" \/ caller = "program" THEN Effective(k)
          ELSE IF pc = "open" THEN Default[k]
          ELSE IF pc = "config" THEN FromFile(at - 1, k)
          ELSE IF pc = "dead" THEN settings[k]
          ELSE FromFile(Len(config), k)

(* How far reading the secrets is.                                         *)
SecretsInv ==
    /\ pc = "secrets" =>
          /\ ~initialized
          /\ source \in SecretsFile
          /\ at \in 1 .. Len(source) + 1
          /\ \A i \in Refusals(source) : i >= at
          /\ \A k \in Secret :
                /\ held[k] = Pointer(source, at - 1, k)
                /\ held[k] = Unset => Setters(source, at - 1, k) = {}
    /\ ~initialized /\ pc # "secrets" => held = [k \in Secret |-> Unset]
    /\ initialized =>
          \A k \in Secret :
             (IF held[k] = Unset THEN Empty ELSE held[k]) = InForce(source, k)

SettingsInvariant == TypeOK /\ ConfigInv /\ SettingsInv /\ SecretsInv

-----------------------------------------------------------------------------
(* One more line: it is the last that sets its key, and leaves the others. *)
LEMMA NextLine ==
    ASSUME NEW L, NEW file \in Seq(L), NEW n \in Nat, NEW k,
           n + 1 \in DOMAIN file
    PROVE  /\ file[n + 1].key = k =>
                 /\ Setters(file, n + 1, k) # {}
                 /\ LastOf(Setters(file, n + 1, k)) = n + 1
           /\ file[n + 1].key # k => Setters(file, n + 1, k) = Setters(file, n, k)
<1>1. DOMAIN file = 1 .. Len(file) /\ Len(file) \in Nat
  OBVIOUS
<1>2. ASSUME file[n + 1].key = k
      PROVE  /\ Setters(file, n + 1, k) # {}
             /\ LastOf(Setters(file, n + 1, k)) = n + 1
  <2> DEFINE I == Setters(file, n + 1, k)
  <2>1. n + 1 \in I
    BY <1>2 DEF Setters
  <2>2. \A j \in I : j \in Int /\ j <= n + 1
    BY <1>1 DEF Setters
  <2>3. \A i \in I : (\A j \in I : j <= i) => i = n + 1
    BY <2>1, <2>2
  <2>4. (\E i \in I : \A j \in I : j <= i)
    BY <2>1, <2>2
  <2> HIDE DEF I
  <2>5. LastOf(I) = n + 1
    BY <2>3, <2>4 DEF LastOf
  <2> QED
    BY <2>1, <2>5 DEF I
<1>3. ASSUME file[n + 1].key # k
      PROVE  Setters(file, n + 1, k) = Setters(file, n, k)
  BY <1>1, <1>3 DEF Setters
<1> QED
  BY <1>2, <1>3

(* All the lines.                                                          *)
LEMMA WholeFile ==
    ASSUME NEW L, NEW file \in Seq(L), NEW n \in Nat, NEW k,
           n \in 1 .. Len(file) + 1, n \notin DOMAIN file
    PROVE  n - 1 = Len(file)
  OBVIOUS

(* No lines.                                                               *)
LEMMA NoLine ==
    ASSUME NEW L, NEW file \in Seq(L), NEW k
    PROVE  Setters(file, 0, k) = {}
  BY DEF Setters

-----------------------------------------------------------------------------
(* What a text means has the type of the setting.                          *)
LEMMA ReadType ==
    ASSUME NEW k \in Setting, NEW v \in Value, ~Unreadable(k, v)
    PROVE  Read(k, v) \in IF k \in Numeric THEN Int
                          ELSE IF k \in Flag THEN BOOLEAN ELSE Value
<1>1. CASE k \in Numeric
  BY <1>1, SettingsAssumption DEF Read, Unreadable
<1>2. CASE k \in Flag
  <2>1. k \notin Numeric
    BY <1>2, SettingsAssumption
  <2>2. Read(k, v) = (v = True)
    BY <1>2, <2>1 DEF Read
  <2> QED
    BY <1>2, <2>1, <2>2
<1>3. CASE k \notin Numeric /\ k \notin Flag
  BY <1>3 DEF Read
<1> QED
  BY <1>1, <1>2, <1>3

(* Having no value differs from every value.                               *)
LEMMA UnsetIsNoText == Unset \notin SecretText
<1>1. \A t \in SecretText : t.length \in Nat
  BY SettingsAssumption
<1>2. Unset.length \notin Nat
  BY DEF Unset
<1> QED
  BY <1>1, <1>2

LEMMA InitHolds == Init => SettingsInvariant
<1> SUFFICES ASSUME Init PROVE SettingsInvariant
  OBVIOUS
<1>1. TypeOK
  <2>1. \A k \in Setting : settings[k] = Default[k]
    BY DEF Init
  <2>2. \A k \in Setting :
          settings[k] \in IF k \in Numeric THEN Int
                          ELSE IF k \in Flag THEN BOOLEAN ELSE Value
    BY <2>1, SettingsAssumption
  <2>3. DOMAIN settings = Setting /\ held \in [Secret -> SecretText \cup {Unset}]
    BY DEF Init
  <2>4. pc \in {"open", "env"} /\ at \in Nat \ {0} /\ caller = "config"
    BY DEF Init
  <2>6. initialized \in BOOLEAN
    BY DEF Init
  <2>5. /\ config \in ConfigFile \cup {Absent, NoFile} /\ env \in Environment
        /\ disk \in SecretsFile \cup {Absent} /\ source = Absent
    BY DEF Init
  <2> QED
    BY <2>2, <2>3, <2>4, <2>5, <2>6 DEF TypeOK
<1>2. ConfigInv
  BY DEF Init, ConfigInv
<1>3. SettingsInv
  BY DEF Init, SettingsInv, FromFile
<1>4. SecretsInv
  BY DEF Init, SecretsInv
<1> QED
  BY <1>1, <1>2, <1>3, <1>4 DEF SettingsInvariant

(* Reading the configuration and the environment.                          *)
LEMMA ConfigSteps ==
    ASSUME SettingsInvariant, OpenConfig \/ ReadConfigLine \/ ConfigRead
    PROVE  SettingsInvariant'
<1> USE DEF SettingsInvariant
<1>1. CASE OpenConfig
  <2>1. TypeOK'
    BY <1>1 DEF OpenConfig, TypeOK
  <2>2. config \in ConfigFile => config \in Seq(ConfigLine) /\ Len(config) \in Nat
    BY SettingsAssumption
  <2>3. ConfigInv'
    BY <1>1, <2>2, SettingsAssumption DEF OpenConfig, ConfigInv, TypeOK
  <2>4. \A k \in Setting : settings[k] = Default[k]
    BY <1>1 DEF OpenConfig, ConfigInv, SettingsInv
  <2>5. ASSUME config \in ConfigFile, NEW k \in Setting
        PROVE  FromFile(0, k) = Default[k]
    BY <2>2, <2>5, NoLine DEF FromFile
  <2>6. SettingsInv'
    <3> SUFFICES ASSUME NEW k \in Setting
                 PROVE  settings'[k] =
                          IF pc' = "config" THEN FromFile(at - 1, k)'
                          ELSE FromFile(Len(config), k)'
      BY <1>1 DEF OpenConfig, SettingsInv, ConfigInv
    <3>1. CASE config = Absent
      BY <1>1, <2>4, <3>1 DEF OpenConfig, FromFile
    <3>2. CASE config # Absent
      <4>1. config \in ConfigFile /\ at - 1 = 0 /\ pc' = "config"
        BY <1>1, <3>2 DEF OpenConfig, ConfigInv, TypeOK
      <4>2. FromFile(at - 1, k)' = FromFile(at - 1, k)
        BY <1>1 DEF OpenConfig, FromFile, Setters
      <4> QED
        BY <1>1, <2>4, <2>5, <4>1, <4>2 DEF OpenConfig
    <3> QED
      BY <3>1, <3>2
  <2>7. SecretsInv'
    BY <1>1 DEF OpenConfig, SecretsInv, InForce, Refusals, Setters, Pointer
  <2> QED
    BY <2>1, <2>3, <2>6, <2>7
<1>2. CASE ReadConfigLine
  <2> DEFINE key == config[at].key
             value == config[at].value
  <2>1. /\ pc = "config" /\ config \in ConfigFile /\ config \in Seq(ConfigLine)
        /\ at \in DOMAIN config /\ at \in 1 .. Len(config) /\ Len(config) \in Nat
        /\ config \notin {Absent, NoFile}
    BY <1>2, SettingsAssumption DEF ReadConfigLine, ConfigInv
  <2>2. caller = "config" /\ (pc' = "config" \/ pc' = "dead")
    BY <1>2, <2>1 DEF ReadConfigLine, ConfigInv, TypeOK
  <2>3. config[at] \in ConfigLine
    BY <2>1
  <2>4. key \in Setting \cup {OtherKey} /\ value \in Value
    BY <2>3 DEF ConfigLine
  <2>5. UNCHANGED <<config, env, disk, source, held, initialized, caller>>
    BY <1>2 DEF ReadConfigLine
  <2>6. \/ pc' = "dead" /\ UNCHANGED <<at, settings>>
        \/ /\ pc' = "config" /\ at' = at + 1
           /\ key \in Setting => ~Unreadable(key, value)
           /\ settings' = [k \in Setting |->
                IF k = key THEN Read(k, value) ELSE settings[k]]
    BY <1>2, <2>1 DEF ReadConfigLine
  <2> HIDE DEF key, value
  <2>7. TypeOK'
    <3>1. DOMAIN settings' = Setting
      BY <2>6 DEF TypeOK
    <3>2. ASSUME NEW k \in Setting
          PROVE  settings'[k] \in IF k \in Numeric THEN Int
                                  ELSE IF k \in Flag THEN BOOLEAN ELSE Value
      <4>1. CASE settings'[k] = settings[k]
        BY <4>1 DEF TypeOK
      <4>2. CASE settings'[k] # settings[k]
        <5>1. k = key /\ settings'[k] = Read(k, value) /\ ~Unreadable(k, value)
          BY <2>6, <4>2
        <5> QED
          BY <2>4, <5>1, ReadType
      <4> QED
        BY <4>1, <4>2
    <3>3. pc' \in {"config", "dead"} /\ at' \in Nat \ {0}
      BY <2>1, <2>6
    <3> QED
      BY <2>5, <3>1, <3>2, <3>3 DEF TypeOK
  <2>8. ConfigInv'
    BY <2>1, <2>2, <2>5, <2>6 DEF ConfigInv
  <2>9. SettingsInv'
    <3> SUFFICES ASSUME NEW k \in Setting, pc' = "config"
                 PROVE  settings'[k] = FromFile(at - 1, k)'
      BY <2>2, <2>5, <2>6 DEF SettingsInv
    <3>1. /\ at' - 1 = (at - 1) + 1 /\ at - 1 \in Nat /\ (at - 1) + 1 = at
          /\ settings'[k] = IF k = key THEN Read(k, value) ELSE settings[k]
      BY <2>1, <2>6
    <3>2. settings[k] = FromFile(at - 1, k)
      BY <2>1, <2>2 DEF SettingsInv
    <3>3. FromFile(at - 1, k)' = FromFile((at - 1) + 1, k)
      BY <2>5, <3>1 DEF FromFile, Setters
    <3>4. CASE k = key
      <4>1. Setters(config, at, k) # {} /\ LastOf(Setters(config, at, k)) = at
        BY <2>1, <3>1, <3>4, NextLine DEF key
      <4>2. FromFile(at, k) = Read(k, value)
        BY <2>1, <4>1 DEF FromFile, value
      <4> QED
        BY <3>1, <3>3, <3>4, <4>2
    <3>5. CASE k # key
      <4>1. Setters(config, at, k) = Setters(config, at - 1, k)
        BY <2>1, <3>1, <3>5, NextLine DEF key
      <4>2. FromFile(at, k) = FromFile(at - 1, k)
        BY <4>1 DEF FromFile
      <4> QED
        BY <3>1, <3>2, <3>3, <3>5, <4>2
    <3> QED
      BY <3>4, <3>5
  <2>10. SecretsInv'
    BY <2>1, <2>5, <2>6 DEF SecretsInv, InForce, Refusals, Setters
  <2> QED
    BY <2>7, <2>8, <2>9, <2>10
<1>3. CASE ConfigRead
  <2>1. /\ pc = "config" /\ config \in ConfigFile /\ config \in Seq(ConfigLine)
        /\ at \in 1 .. Len(config) + 1 /\ at \notin DOMAIN config
        /\ config \notin {Absent, NoFile} /\ caller = "config" /\ at \in Nat
    BY <1>3, SettingsAssumption DEF ConfigRead, ConfigInv, TypeOK
  <2>2. at - 1 = Len(config)
    BY <2>1, WholeFile
  <2>3. TypeOK'
    BY <1>3 DEF ConfigRead, TypeOK
  <2>4. ConfigInv'
    BY <1>3, <2>1 DEF ConfigRead, ConfigInv
  <2>5. SettingsInv'
    <3> SUFFICES ASSUME NEW k \in Setting
                 PROVE  settings'[k] = FromFile(Len(config), k)'
      BY <1>3, <2>1 DEF ConfigRead, SettingsInv
    <3>1. settings[k] = FromFile(at - 1, k)
      BY <2>1 DEF SettingsInv
    <3>2. FromFile(Len(config), k)' = FromFile(Len(config), k)
      BY <1>3 DEF ConfigRead, FromFile, Setters
    <3> QED
      BY <1>3, <2>2, <3>1, <3>2 DEF ConfigRead
  <2>6. SecretsInv'
    BY <1>3 DEF ConfigRead, SecretsInv, InForce, Refusals, Setters
  <2> QED
    BY <2>3, <2>4, <2>5, <2>6
<1> QED
  BY <1>1, <1>2, <1>3

LEMMA EnvironmentStep ==
    ASSUME SettingsInvariant, LoadEnv
    PROVE  SettingsInvariant'
<1> USE DEF SettingsInvariant
<1>1. /\ pc = "env" /\ caller = "config"
      /\ UNCHANGED <<at, config, env, disk, source, held, initialized, caller>>
  BY DEF LoadEnv, ConfigInv, TypeOK
<1>2. DOMAIN env \subseteq Setting /\ \A k \in DOMAIN env : env[k] \in Value
  BY SettingsAssumption DEF TypeOK
<1>3. \/ pc' = "dead" /\ UNCHANGED settings
      \/ /\ pc' = "ready"
         /\ \A k \in DOMAIN env : ~Unreadable(k, env[k])
         /\ settings' = [k \in Setting |->
              IF k \in DOMAIN env THEN Read(k, env[k]) ELSE settings[k]]
  BY DEF LoadEnv
<1>4. TypeOK'
  <2>1. DOMAIN settings' = Setting /\ pc' \in {"dead", "ready"}
    BY <1>3 DEF TypeOK
  <2>2. ASSUME NEW k \in Setting
        PROVE  settings'[k] \in IF k \in Numeric THEN Int
                                ELSE IF k \in Flag THEN BOOLEAN ELSE Value
    <3>1. CASE settings'[k] = settings[k]
      BY <3>1 DEF TypeOK
    <3>2. CASE settings'[k] # settings[k]
      <4>1. /\ env[k] \in Value /\ settings'[k] = Read(k, env[k])
            /\ ~Unreadable(k, env[k])
        BY <1>2, <1>3, <3>2
      <4> QED
        BY <4>1, ReadType
    <3> QED
      BY <3>1, <3>2
  <2> QED
    BY <1>1, <2>1, <2>2 DEF TypeOK
<1>5. ConfigInv'
  BY <1>1, <1>3 DEF ConfigInv
<1>6. SettingsInv'
  <2> SUFFICES ASSUME NEW k \in Setting, pc' = "ready"
               PROVE  settings'[k] = Effective(k)'
    BY <1>1, <1>3 DEF SettingsInv
  <2>1. settings[k] = FromFile(Len(config), k)
    BY <1>1 DEF SettingsInv
  <2>2. Effective(k)' = Effective(k)
    BY <1>1 DEF Effective, FromFile, Setters
  <2> QED
    BY <1>3, <2>1, <2>2 DEF Effective
<1>7. SecretsInv'
  BY <1>1, <1>3 DEF SecretsInv, InForce, Refusals, Setters
<1> QED
  BY <1>4, <1>5, <1>6, <1>7

(* A step that leaves the configuration alone, and ends the reading of the *)
(* secrets at most, keeps what is known of the settings.                   *)
LEMMA SettingsKept ==
    ASSUME SettingsInvariant, pc \in {"initialize", "secrets", "ready"},
           UNCHANGED <<config, env, settings>>,
           \/ caller' = caller
           \/ pc = "ready" /\ caller' = "program",
           \/ pc' \in {"initialize", "secrets"} /\ (pc = "ready" => caller' = "program")
           \/ pc # "ready" /\ pc' = IF caller = "config" THEN "env" ELSE "ready"
           \/ pc = "ready" /\ pc' = "ready"
    PROVE  ConfigInv' /\ SettingsInv'
<1> USE DEF SettingsInvariant
<1>1. ConfigInv'
  BY DEF ConfigInv, TypeOK
<1>2. ASSUME NEW k \in Setting
      PROVE  /\ Effective(k)' = Effective(k)
             /\ FromFile(Len(config), k)' = FromFile(Len(config), k)
  BY DEF Effective, FromFile, Setters
<1>3. SettingsInv'
  <2> SUFFICES ASSUME NEW k \in Setting
               PROVE  settings'[k] =
                        IF pc' = "ready" \/ caller' = "program" THEN Effective(k)'
                        ELSE FromFile(Len(config), k)'
    BY DEF SettingsInv, TypeOK
  <2>1. settings[k] = IF pc = "ready" \/ caller = "program" THEN Effective(k)
                      ELSE FromFile(Len(config), k)
    BY DEF SettingsInv
  <2>2. (pc' = "ready" \/ caller' = "program") <=> (pc = "ready" \/ caller = "program")
    BY DEF TypeOK, ConfigInv
  <2> QED
    BY <1>2, <2>1, <2>2
<1> QED
  BY <1>1, <1>3

(* SecretsManager.                                                         *)
LEMMA InitializeStep ==
    ASSUME SettingsInvariant, Initialize
    PROVE  SettingsInvariant'
<1> USE DEF SettingsInvariant
<1>1. pc = "initialize" /\ UNCHANGED <<config, env, settings, disk, caller>>
  BY DEF Initialize
<1>2. pc' \in {"env", "ready", "secrets"}
  BY DEF Initialize, Return
<1>3. ConfigInv' /\ SettingsInv'
  BY <1>1, SettingsKept DEF Initialize, Return
<1>4. CASE initialized
  <2>1. UNCHANGED <<at, source, held, initialized>> /\ pc' # "secrets"
    BY <1>4 DEF Initialize, Return
  <2>2. TypeOK'
    BY <1>1, <1>2, <2>1 DEF TypeOK
  <2>3. SecretsInv'
    BY <1>1, <2>1 DEF SecretsInv, InForce, Refusals, Setters
  <2> QED
    BY <1>3, <2>2, <2>3
<1>5. CASE ~initialized /\ disk = Absent
  <2>1. /\ source' = Absent /\ held' = NoSecrets /\ initialized' = TRUE
        /\ at' = at /\ pc' # "secrets"
    BY <1>5 DEF Initialize, Return
  <2>2. held' \in [Secret -> SecretText \cup {Unset}]
    BY <2>1, SettingsAssumption DEF NoSecrets
  <2>3. TypeOK'
    BY <1>1, <1>2, <2>1, <2>2 DEF TypeOK
  <2>4. ASSUME NEW k \in Secret
        PROVE  held'[k] = Empty /\ InForce(source, k)' = Empty
    BY <2>1 DEF NoSecrets, InForce
  <2>5. SecretsInv'
    BY <2>1, <2>4 DEF SecretsInv
  <2> QED
    BY <1>3, <2>3, <2>5
<1>6. CASE ~initialized /\ disk # Absent
  <2>1. /\ source' = disk /\ at' = 1 /\ pc' = "secrets"
        /\ UNCHANGED <<held, initialized>>
    BY <1>6 DEF Initialize
  <2>2. disk \in SecretsFile /\ disk \in Seq(SecretLine)
    BY <1>6, SettingsAssumption DEF TypeOK
  <2>3. TypeOK'
    BY <1>1, <1>2, <2>1, <2>2 DEF TypeOK
  <2>4. \A i \in Refusals(disk) : i >= 1
    BY <2>2 DEF Refusals
  <2>5. held = [k \in Secret |-> Unset]
    BY <1>1, <1>6 DEF SecretsInv
  <2>6. \A k \in Secret : held[k] = Pointer(disk, 0, k) /\ Setters(disk, 0, k) = {}
    BY <2>2, <2>5, NoLine DEF Pointer
  <2>7. SecretsInv'
    <3>1. \A k \in Secret : /\ held'[k] = Pointer(source, at - 1, k)'
                            /\ Setters(source, at - 1, k)' = {}
      <4>1. at' - 1 = 0
        BY <2>1
      <4>2. \A k \in Secret : Setters(source, at - 1, k)' = Setters(disk, 0, k)
        BY <2>1, <4>1 DEF Setters
      <4> QED
        BY <2>1, <2>6, <4>2 DEF Pointer
    <3>2. \A i \in Refusals(source)' : i >= at'
      BY <2>1, <2>4 DEF Refusals
    <3> QED
      BY <1>6, <2>1, <2>2, <3>1, <3>2 DEF SecretsInv
  <2> QED
    BY <1>3, <2>3, <2>7
<1> QED
  BY <1>4, <1>5, <1>6

LEMMA ReadingStep ==
    ASSUME SettingsInvariant, ReadSecretLine
    PROVE  SettingsInvariant'
<1> USE DEF SettingsInvariant
<1> DEFINE key == source[at].key
           value == source[at].value
<1>1. /\ pc = "secrets" /\ at \in DOMAIN source
      /\ UNCHANGED <<config, env, settings, disk, source, caller>>
  BY DEF ReadSecretLine
<1>2. /\ ~initialized /\ source \in SecretsFile /\ at \in 1 .. Len(source) + 1
      /\ \A i \in Refusals(source) : i >= at
      /\ \A k \in Secret :
            /\ held[k] = Pointer(source, at - 1, k)
            /\ held[k] = Unset => Setters(source, at - 1, k) = {}
  BY <1>1 DEF SecretsInv
<1>3. source \in Seq(SecretLine) /\ source # Absent
  BY <1>2, SettingsAssumption
<1>4. at \in 1 .. Len(source) /\ Len(source) \in Nat
  BY <1>1, <1>3
<1>5. key \in Secret \cup {OtherKey} /\ value \in SecretText
  <2>1. source[at] \in SecretLine
    BY <1>3, <1>4
  <2> QED
    BY <2>1 DEF SecretLine
<1>6. ConfigInv' /\ SettingsInv'
  BY <1>1, SettingsKept DEF ReadSecretLine, Return
<1>7. CASE key \in Secret /\ ~Acceptable(value)
  <2>1. /\ held' = NoSecrets /\ initialized' = TRUE /\ at' = 1
        /\ pc' \in {"env", "ready"}
    BY <1>7 DEF ReadSecretLine, Return
  <2>2. held' \in [Secret -> SecretText \cup {Unset}]
    BY <2>1, SettingsAssumption DEF NoSecrets
  <2>3. TypeOK'
    BY <1>1, <2>1, <2>2 DEF TypeOK
  <2>4. at \in Refusals(source)
    BY <1>1, <1>7 DEF Refusals
  <2>5. ASSUME NEW k \in Secret
        PROVE  held'[k] = Empty /\ InForce(source, k)' = Empty
    <3>1. Refusals(source)' = Refusals(source)
      BY <1>1 DEF Refusals
    <3> QED
      BY <1>1, <2>1, <2>4, <3>1 DEF NoSecrets, InForce
  <2>6. SecretsInv'
    BY <2>1, <2>5 DEF SecretsInv
  <2> QED
    BY <1>6, <2>3, <2>6
<1>8. CASE ~(key \in Secret /\ ~Acceptable(value))
  <2>1. /\ held' = [k \in Secret |-> IF k = key THEN value ELSE held[k]]
        /\ at' = at + 1 /\ pc' = "secrets" /\ initialized' = initialized
    BY <1>1, <1>8 DEF ReadSecretLine
  <2> HIDE DEF key, value
  <2>2. held' \in [Secret -> SecretText \cup {Unset}]
    BY <1>5, <2>1 DEF TypeOK
  <2>3. TypeOK'
    BY <1>1, <1>4, <2>1, <2>2 DEF TypeOK
  <2>4. \A i \in Refusals(source) : i >= at + 1
    <3>1. at \notin Refusals(source)
      BY <1>8 DEF Refusals, key, value
    <3>2. \A i \in Refusals(source) : i \in Int /\ i >= at /\ i # at
      BY <1>2, <1>3, <3>1 DEF Refusals
    <3> QED
      BY <1>4, <3>2
  <2>5. ASSUME NEW k \in Secret
        PROVE  /\ held'[k] = Pointer(source, at, k)
               /\ held'[k] = Unset => Setters(source, at, k) = {}
    <3>1. held'[k] = IF k = key THEN value ELSE held[k]
      BY <2>1
    <3>2. at - 1 \in Nat /\ (at - 1) + 1 = at
      BY <1>4
    <3>3. CASE k = key
      <4>1. source[(at - 1) + 1].key = k /\ (at - 1) + 1 \in DOMAIN source
        BY <1>1, <3>2, <3>3 DEF key
      <4>2. /\ Setters(source, (at - 1) + 1, k) # {}
            /\ LastOf(Setters(source, (at - 1) + 1, k)) = (at - 1) + 1
        BY <1>3, <3>2, <4>1, NextLine
      <4>3. held'[k] = Pointer(source, at, k)
        BY <3>1, <3>2, <3>3, <4>2 DEF Pointer, value
      <4>4. held'[k] # Unset
        BY <1>5, <3>1, <3>3, UnsetIsNoText
      <4> QED
        BY <4>3, <4>4
    <3>4. CASE k # key
      <4>1. Setters(source, at, k) = Setters(source, at - 1, k)
        BY <1>1, <1>3, <3>2, <3>4, NextLine DEF key
      <4> QED
        BY <1>2, <3>1, <3>4, <4>1 DEF Pointer
    <3> QED
      BY <3>3, <3>4
  <2>6. \A k \in Secret : /\ held'[k] = Pointer(source, at - 1, k)'
                          /\ held'[k] = Unset => Setters(source, at - 1, k)' = {}
    <3>1. at' - 1 = at
      BY <1>4, <2>1
    <3> QED
      BY <1>1, <2>5, <3>1 DEF Pointer, Setters
  <2>7. \A i \in Refusals(source)' : i >= at'
    BY <1>1, <2>1, <2>4 DEF Refusals
  <2>8. SecretsInv'
    <3>1. at' \in 1 .. Len(source') + 1
      BY <1>1, <1>4, <2>1
    <3>2. pc' = "secrets" /\ ~initialized' /\ source' \in SecretsFile
      BY <1>1, <1>2, <2>1
    <3> QED
      BY <2>6, <2>7, <3>1, <3>2 DEF SecretsInv
  <2> QED
    BY <1>6, <2>3, <2>8
<1> QED
  BY <1>7, <1>8

LEMMA ReadStep ==
    ASSUME SettingsInvariant, SecretsRead
    PROVE  SettingsInvariant'
<1> USE DEF SettingsInvariant
<1>1. /\ pc = "secrets" /\ at \notin DOMAIN source
      /\ UNCHANGED <<config, env, settings, disk, source, held, caller>>
      /\ initialized' = TRUE /\ at' = 1 /\ pc' \in {"env", "ready"}
  BY DEF SecretsRead, Return
<1>2. /\ source \in SecretsFile /\ at \in 1 .. Len(source) + 1 /\ at \in Nat
      /\ \A i \in Refusals(source) : i >= at
      /\ \A k \in Secret :
            /\ held[k] = Pointer(source, at - 1, k)
            /\ held[k] = Unset => Setters(source, at - 1, k) = {}
  BY <1>1 DEF SecretsInv, TypeOK
<1>3. source \in Seq(SecretLine) /\ source # Absent
  BY <1>2, SettingsAssumption
<1>4. at - 1 = Len(source) /\ Len(source) \in Nat
  BY <1>1, <1>2, <1>3, WholeFile
<1>5. ConfigInv' /\ SettingsInv'
  BY <1>1, SettingsKept DEF SecretsRead, Return
<1>6. TypeOK'
  BY <1>1 DEF TypeOK
<1>7. Refusals(source) = {}
  <2>1. \A i \in Refusals(source) : i \in 1 .. Len(source)
    BY <1>3 DEF Refusals
  <2> QED
    BY <1>2, <1>4, <2>1
<1>8. ASSUME NEW k \in Secret
      PROVE  (IF held[k] = Unset THEN Empty ELSE held[k]) = InForce(source, k)
  <2>1. held[k] = Pointer(source, Len(source), k)
    BY <1>2, <1>4
  <2>2. CASE Setters(source, Len(source), k) = {}
    BY <2>1, <2>2 DEF Pointer, InForce
  <2>3. CASE Setters(source, Len(source), k) # {}
    <3>1. /\ held[k] = source[LastOf(Setters(source, Len(source), k))].value
          /\ InForce(source, k) = held[k]
      BY <1>3, <1>7, <2>1, <2>3 DEF Pointer, InForce
    <3>2. held[k] # Unset
      BY <1>2, <1>4, <2>3
    <3> QED
      BY <3>1, <3>2
  <2> QED
    BY <2>2, <2>3
<1>9. SecretsInv'
  BY <1>1, <1>8 DEF SecretsInv, InForce, Refusals, Setters
<1> QED
  BY <1>5, <1>6, <1>9

LEMMA ProgramSteps ==
    ASSUME SettingsInvariant,
           CallInitialize \/ ClearSecrets \/ EditSecrets \/ Dead \/ UNCHANGED vars
    PROVE  SettingsInvariant'
<1> USE DEF SettingsInvariant
<1>1. CASE CallInitialize
  <2>1. TypeOK'
    BY <1>1 DEF CallInitialize, TypeOK
  <2>2. ConfigInv' /\ SettingsInv'
    BY <1>1, SettingsKept DEF CallInitialize
  <2>3. SecretsInv'
    BY <1>1 DEF CallInitialize, SecretsInv, InForce, Refusals, Setters
  <2> QED
    BY <2>1, <2>2, <2>3
<1>2. CASE ClearSecrets
  <2>1. held' \in [Secret -> SecretText \cup {Unset}]
    BY <1>2 DEF ClearSecrets
  <2>2. initialized' \in BOOLEAN
    BY <1>2 DEF ClearSecrets
  <2>3. TypeOK'
    BY <1>2, <2>1, <2>2 DEF ClearSecrets, TypeOK
  <2>4. ConfigInv' /\ SettingsInv'
    BY <1>2, SettingsKept DEF ClearSecrets
  <2>5. SecretsInv'
    BY <1>2 DEF ClearSecrets, SecretsInv
  <2> QED
    BY <2>3, <2>4, <2>5
<1>3. CASE EditSecrets
  <2>1. TypeOK'
    BY <1>3 DEF EditSecrets, TypeOK
  <2>2. ConfigInv' /\ SettingsInv'
    BY <1>3, SettingsKept DEF EditSecrets
  <2>3. SecretsInv'
    BY <1>3 DEF EditSecrets, SecretsInv, InForce, Refusals, Setters
  <2> QED
    BY <2>1, <2>2, <2>3
<1>4. CASE UNCHANGED vars
  <2>1. TypeOK' /\ ConfigInv'
    BY <1>4 DEF vars, TypeOK, ConfigInv
  <2>2. SettingsInv'
    BY <1>4 DEF vars, SettingsInv, Effective, FromFile, Setters
  <2>3. SecretsInv'
    BY <1>4 DEF vars, SecretsInv, InForce, Refusals, Setters, Pointer
  <2> QED
    BY <2>1, <2>2, <2>3
<1> QED
  BY <1>1, <1>2, <1>3, <1>4 DEF Dead

-----------------------------------------------------------------------------
LEMMA Inductive == Spec => []SettingsInvariant
<1>1. SettingsInvariant /\ [Next]_vars => SettingsInvariant'
  <2> SUFFICES ASSUME SettingsInvariant, [Next]_vars PROVE SettingsInvariant'
    OBVIOUS
  <2>1. CASE OpenConfig \/ ReadConfigLine \/ ConfigRead
    BY <2>1, ConfigSteps
  <2>2. CASE LoadEnv
    BY <2>2, EnvironmentStep
  <2>3. CASE Initialize
    BY <2>3, InitializeStep
  <2>4. CASE ReadSecretLine
    BY <2>4, ReadingStep
  <2>5. CASE SecretsRead
    BY <2>5, ReadStep
  <2>6. CASE CallInitialize \/ ClearSecrets \/ EditSecrets \/ Dead \/ UNCHANGED vars
    BY <2>6, ProgramSteps
  <2> QED
    BY <2>1, <2>2, <2>3, <2>4, <2>5, <2>6 DEF Next
<1> QED
  BY <1>1, InitHolds, PTL DEF Spec

(* Type correctness: no setting ever has a value of another kind.          *)
THEOREM SettingsTypeCorrect == Spec => []TypeOK
<1>1. SettingsInvariant => TypeOK
  BY DEF SettingsInvariant
<1> QED
  BY <1>1, Inductive, PTL

(* The environment comes before the file and the file before the defaults, *)
(* for files and environments of any size.                                 *)
THEOREM EnvironmentFirst == Spec => []Precedence
<1>1. SettingsInvariant => Precedence
  BY DEF SettingsInvariant, SettingsInv, Precedence
<1> QED
  BY <1>1, Inductive, PTL

(* All the secrets of the file opened last, or none, after any sequence of *)
(* initialize() and clearSecrets().                                        *)
THEOREM AllSecretsOrNone == Spec => []ServedSecrets
<1>1. SettingsInvariant => ServedSecrets
  BY DEF SettingsInvariant, SecretsInv, ServedSecrets, Served
<1> QED
  BY <1>1, Inductive, PTL
=============================================================================

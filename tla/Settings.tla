------------------------------ MODULE Settings -------------------------------
(***************************************************************************)
(* How a program gets its settings and its secrets: main() reads the       *)
(* configuration file and then the environment (src/common/config.cpp);    *)
(* SecretsManager reads a file of its own (src/common/secrets.cpp), which  *)
(* Config does when there is no configuration file, and which a program    *)
(* may also do itself, clear and do again.                                 *)
(*                                                                         *)
(* A file is the sequence of its lines; a line that is empty, a comment or *)
(* without '=' is one whose key is nobody's.                               *)
(***************************************************************************)
EXTENDS Integers, Sequences

CONSTANTS
    Setting, Numeric, Flag,   \* keys of Config; read with stoi; true or not
    Value, True, Number,      \* texts; the text "true"; what stoi makes of one
    NotANumber,
    Default,                  \* the initialisers in config.hpp
    Secret, SecretText,       \* keys of SecretsManager; texts of their values
    OtherKey,
    ConfigFile, SecretsFile, Environment,   \* what may be found at the start
    Absent, NoFile            \* no such file; none was named (client)

Class == {"upper", "lower", "digit", "other"}
Unset == [length |-> -1, common |-> FALSE, classes |-> {}]
Empty == [length |-> 0, common |-> FALSE, classes |-> {}]

ConfigLine == [key : Setting \cup {OtherKey}, value : Value]
SecretLine == [key : Secret \cup {OtherKey}, value : SecretText]

ASSUME SettingsAssumption ==
    /\ Numeric \subseteq Setting /\ Flag \subseteq Setting \ Numeric
    /\ True \in Value
    /\ NotANumber \notin Int
    /\ Number \in [Value -> Int \cup {NotANumber}]
    /\ OtherKey \notin Setting \cup Secret
    /\ SecretText \subseteq [length : Nat, common : BOOLEAN,
                             classes : SUBSET Class]
    /\ Empty \in SecretText
    /\ ConfigFile \subseteq Seq(ConfigLine)
    /\ SecretsFile \subseteq Seq(SecretLine)
    /\ \A e \in Environment :
          /\ DOMAIN e \subseteq Setting
          /\ \A k \in DOMAIN e : e[k] \in Value
    /\ Absent \notin ConfigFile \cup SecretsFile \cup {NoFile}
    /\ NoFile \notin ConfigFile
    /\ \A k \in Setting :
          Default[k] \in IF k \in Numeric THEN Int
                         ELSE IF k \in Flag THEN BOOLEAN ELSE Value

VARIABLES
    pc,           \* where the program is in reading
    at,           \* the line it is about to read
    config, env,  \* the configuration file and the environment
    settings,     \* the members of Config
    disk,         \* secrets/secrets.conf
    source,       \* what of it initialize() opened last
    held,         \* the three pointers of SecretsManager
    initialized,
    caller        \* who called initialize() last: Config or the program

vars == <<pc, at, config, env, settings, disk, source, held, initialized,
          caller>>

(* What the text v means for the setting k.                                *)
Read(k, v) == IF k \in Numeric THEN Number[v]
              ELSE IF k \in Flag THEN v = True ELSE v
Unreadable(k, v) == k \in Numeric /\ Number[v] = NotANumber

TypeOK ==
    /\ pc \in {"open", "config", "env", "initialize", "secrets", "ready",
               "dead"}
    /\ at \in Nat \ {0}
    /\ config \in ConfigFile \cup {Absent, NoFile}
    /\ env \in Environment
    /\ DOMAIN settings = Setting
    /\ \A k \in Setting :
          settings[k] \in IF k \in Numeric THEN Int
                          ELSE IF k \in Flag THEN BOOLEAN ELSE Value
    /\ disk \in SecretsFile \cup {Absent}
    /\ source \in SecretsFile \cup {Absent}
    /\ held \in [Secret -> SecretText \cup {Unset}]
    /\ initialized \in BOOLEAN
    /\ caller \in {"config", "program"}

Init ==
    /\ config \in ConfigFile \cup {Absent, NoFile}
    /\ env \in Environment
    /\ disk \in SecretsFile \cup {Absent}
    /\ pc = IF config = NoFile THEN "env" ELSE "open"
    /\ at = 1
    /\ settings = [k \in Setting |-> Default[k]]
    /\ source = Absent
    /\ held = [k \in Secret |-> Unset]
    /\ initialized = FALSE
    /\ caller = "config"

-----------------------------------------------------------------------------
(* Config *)

(* Without the file setDefaults() calls initialize(); nothing else does.   *)
OpenConfig ==
    /\ pc = "open"
    /\ pc' = IF config = Absent THEN "initialize" ELSE "config"
    /\ UNCHANGED <<at, config, env, settings, disk, source, held, initialized,
                   caller>>

(* Mutant: the first assignment of a key counts.                           *)
ReadConfigLineOnce ==
    /\ pc = "config"
    /\ at \in DOMAIN config
    /\ LET line == config[at]
       IN IF line.key \in Setting /\ Unreadable(line.key, line.value)
          THEN pc' = "dead" /\ UNCHANGED <<at, settings>>
          ELSE /\ at' = at + 1
               /\ settings' = [k \in Setting |->
                    IF k = line.key /\ settings[k] = Default[k]
                    THEN Read(k, line.value) ELSE settings[k]]
               /\ UNCHANGED pc
    /\ UNCHANGED <<config, env, disk, source, held, initialized, caller>>

(* Mutant: what is not a number is stored.                                 *)
ReadConfigLineUnchecked ==
    /\ pc = "config"
    /\ at \in DOMAIN config
    /\ at' = at + 1
    /\ settings' = [k \in Setting |->
          IF k = config[at].key THEN Read(k, config[at].value)
                                ELSE settings[k]]
    /\ UNCHANGED <<pc, config, env, disk, source, held, initialized, caller>>

(* A number that cannot be read is an exception, which main() prints       *)
(* before it ends.                                                         *)
ReadConfigLine ==
    /\ pc = "config"
    /\ at \in DOMAIN config
    /\ LET line == config[at]
       IN IF line.key \in Setting /\ Unreadable(line.key, line.value)
          THEN pc' = "dead" /\ UNCHANGED <<at, settings>>
          ELSE /\ at' = at + 1
               /\ settings' = [k \in Setting |->
                    IF k = line.key THEN Read(k, line.value) ELSE settings[k]]
               /\ UNCHANGED pc
    /\ UNCHANGED <<config, env, disk, source, held, initialized, caller>>

ConfigRead ==
    /\ pc = "config"
    /\ at \notin DOMAIN config
    /\ pc' = "env"
    /\ at' = 1
    /\ UNCHANGED <<config, env, settings, disk, source, held, initialized,
                   caller>>

(* loadFromEnv: the variables that are set replace what was read before.   *)
LoadEnv ==
    /\ pc = "env"
    /\ IF \E k \in DOMAIN env : Unreadable(k, env[k])
       THEN pc' = "dead" /\ UNCHANGED settings
       ELSE /\ pc' = "ready"
            /\ settings' = [k \in Setting |->
                 IF k \in DOMAIN env THEN Read(k, env[k]) ELSE settings[k]]
    /\ UNCHANGED <<at, config, env, disk, source, held, initialized, caller>>

-----------------------------------------------------------------------------
(* SecretsManager *)

Return == pc' = IF caller = "config" THEN "env" ELSE "ready"

(* validateSecretStrength.                                                 *)
Acceptable(text) ==
    \/ text.length = 0
    \/ /\ text.length \in 12 .. 256
       /\ ~text.common
       /\ {"upper", "lower"} \subseteq text.classes
       /\ text.classes \cap {"digit", "other"} # {}

NoSecrets == [k \in Secret |-> Empty]

(* initialize: a second call without clearSecrets() changes nothing.       *)
Initialize ==
    /\ pc = "initialize"
    /\ \/ /\ initialized
          /\ Return
          /\ UNCHANGED <<at, source, held, initialized>>
       \/ /\ ~initialized
          /\ disk = Absent
          /\ source' = Absent
          /\ held' = NoSecrets
          /\ initialized' = TRUE
          /\ Return
          /\ UNCHANGED at
       \/ /\ ~initialized
          /\ disk # Absent
          /\ source' = disk
          /\ at' = 1
          /\ pc' = "secrets"
          /\ UNCHANGED <<held, initialized>>
    /\ UNCHANGED <<config, env, settings, disk, caller>>

(* Mutant: a secret that is refused leaves those read before it.           *)
ReadSecretLineKeeps ==
    /\ pc = "secrets"
    /\ at \in DOMAIN source
    /\ LET line == source[at]
       IN IF line.key \in Secret /\ ~Acceptable(line.value)
          THEN /\ initialized' = TRUE
               /\ Return
               /\ at' = 1
               /\ UNCHANGED held
          ELSE /\ held' = [k \in Secret |->
                    IF k = line.key THEN line.value ELSE held[k]]
               /\ at' = at + 1
               /\ UNCHANGED <<pc, initialized>>
    /\ UNCHANGED <<config, env, settings, disk, source, caller>>

(* loadSecretsFromFile: at the first secret that is not acceptable it      *)
(* returns false, and initialize() sets all three to nothing.              *)
ReadSecretLine ==
    /\ pc = "secrets"
    /\ at \in DOMAIN source
    /\ LET line == source[at]
       IN IF line.key \in Secret /\ ~Acceptable(line.value)
          THEN /\ held' = NoSecrets
               /\ initialized' = TRUE
               /\ Return
               /\ at' = 1
          ELSE /\ held' = [k \in Secret |->
                    IF k = line.key THEN line.value ELSE held[k]]
               /\ at' = at + 1
               /\ UNCHANGED <<pc, initialized>>
    /\ UNCHANGED <<config, env, settings, disk, source, caller>>

SecretsRead ==
    /\ pc = "secrets"
    /\ at \notin DOMAIN source
    /\ initialized' = TRUE
    /\ Return
    /\ at' = 1
    /\ UNCHANGED <<config, env, settings, disk, source, held, caller>>

(* The getters: nothing before initialize() and after clearSecrets().      *)
Served(k) == IF initialized /\ held[k] # Unset THEN held[k] ELSE Empty

-----------------------------------------------------------------------------
(* The program, once it runs, calls the manager; somebody edits the file   *)
(* between the calls.                                                      *)

CallInitialize ==
    /\ pc = "ready"
    /\ pc' = "initialize"
    /\ caller' = "program"
    /\ UNCHANGED <<at, config, env, settings, disk, source, held, initialized>>

ClearSecrets ==
    /\ pc = "ready"
    /\ held' = [k \in Secret |-> Unset]
    /\ initialized' = FALSE
    /\ UNCHANGED <<pc, at, config, env, settings, disk, source, caller>>

EditSecrets ==
    /\ pc = "ready"
    /\ disk' \in SecretsFile \cup {Absent}
    /\ UNCHANGED <<pc, at, config, env, settings, source, held, initialized,
                   caller>>

Dead == pc = "dead" /\ UNCHANGED vars

Next ==
    \/ OpenConfig \/ ReadConfigLine \/ ConfigRead \/ LoadEnv
    \/ Initialize \/ ReadSecretLine \/ SecretsRead
    \/ CallInitialize \/ ClearSecrets \/ EditSecrets
    \/ Dead

Spec == Init /\ [][Next]_vars

-----------------------------------------------------------------------------
(* The lines of a file, up to line n, that set k; and the last of them.    *)
Setters(file, n, k) == {i \in DOMAIN file : i <= n /\ file[i].key = k}
LastOf(I) == CHOOSE i \in I : \A j \in I : j <= i

(* What the settings are to be: the environment's, or else the last line's *)
(* of the file, or else the default.                                       *)
FromFile(n, k) ==
    IF config \in {Absent, NoFile} \/ Setters(config, n, k) = {}
    THEN Default[k]
    ELSE Read(k, config[LastOf(Setters(config, n, k))].value)
Effective(k) == IF k \in DOMAIN env THEN Read(k, env[k])
                ELSE FromFile(Len(config), k)

(* Once the program runs, every setting is the environment's if that has   *)
(* it, else the last the file gives it, else the default; a number that    *)
(* cannot be read never gets that far (config.cpp:22-73, main.cpp:9-20).   *)
Precedence ==
    pc = "ready" \/ caller = "program"
      => \A k \in Setting : settings[k] = Effective(k)

(* What a file puts in force: all its secrets or, when one of them is not  *)
(* acceptable, none.                                                       *)
Refusals(file) == {i \in DOMAIN file :
                      file[i].key \in Secret /\ ~Acceptable(file[i].value)}
InForce(file, k) ==
    IF file = Absent \/ Refusals(file) # {} \/ Setters(file, Len(file), k) = {}
    THEN Empty
    ELSE file[LastOf(Setters(file, Len(file), k))].value

(* The manager serves exactly what the file it opened last puts in force,  *)
(* all of its secrets or none, and never one of an earlier file, however   *)
(* initialize() and clearSecrets() are called and whatever the file has    *)
(* become meanwhile (secrets.cpp:19-100,152-198).                          *)
ServedSecrets ==
    \A k \in Secret :
        Served(k) = IF initialized THEN InForce(source, k) ELSE Empty
=============================================================================

------------------------------- MODULE Config -------------------------------
(***************************************************************************)
(* The configuration (config/) as operators on a spec, the parsed file: the *)
(* rules it is validated with and the settings it is lowered to. A spec is  *)
(* a flat record, a field of a section is section_field. Texts are what the *)
(* rules tell apart: a host is whether it is a loopback address and its     *)
(* length, a path is "exists", "missing" or "empty", a user name or a       *)
(* password is whether it is set. Parsing TOML, the constraint macros and   *)
(* the narrowing functions are confval's, an external library.              *)
(***************************************************************************)
EXTENDS Integers

CONSTANTS Builtin,        \* BUILTIN_PLUGIN_NAME
          AddressableMib  \* the MiB a usize can count in bytes

ASSUME ConfigAssumption == AddressableMib \in Nat

(* constraints.rs and vocabulary.rs: what a field may be. *)
Port           == 1 .. 65535
Consumers      == 0 .. 1024
MaxRetries     == 0 .. 100
RedisDatabase  == 0 .. 255
TimeoutSeconds == 1 .. 86400
MemoryMib      == 16 .. 4096
HostnameLen    == 1 .. 253
PathLen        == 1 .. 4096

Constraint ==
    [mail_port |-> Port, mail_host |-> HostnameLen,
     mail_encryption |-> {"none", "starttls", "tls"},
     queue_primary |-> Consumers, queue_secondary |-> Consumers,
     queue_driver |-> {"redis", "file"}, queue_name |-> {"word"},
     queue_max_retries |-> MaxRetries,
     redis_host |-> HostnameLen, redis_port |-> Port, redis_database |-> RedisDatabase,
     file_base_path |-> PathLen,
     limits_timeout |-> TimeoutSeconds, limits_memory_mib |-> MemoryMib]

(* spec.rs: what an empty file means. *)
DefaultSpec ==
    [plugins |-> <<>>, exec_whitelist |-> <<>>,
     mail_host |-> 9, mail_loopback |-> TRUE, mail_port |-> 25, mail_from |-> "empty",
     mail_username |-> FALSE, mail_password |-> FALSE, mail_encryption |-> "none",
     queue_primary |-> 8, queue_secondary |-> 8, queue_driver |-> "file",
     queue_name |-> "word", queue_max_retries |-> 0,
     redis_host |-> 9, redis_port |-> 6379, redis_database |-> 0,
     file_base_path |-> 3,
     limits_timeout |-> 900, limits_memory_mib |-> 256]

-----------------------------------------------------------------------------
(* validate.rs *)

(* Mutant of OutOfConstraint: the range of a field is not declared. *)
OutOfConstraintButOne(s) ==
    {f \in DOMAIN Constraint \ {"redis_database"} : s[f] \notin Constraint[f]}

OutOfConstraint(s) == {f \in DOMAIN Constraint : s[f] \notin Constraint[f]}

(* check_path_entry: the entries of a map with a path of this kind. *)
Entries(map, kind) == {n \in DOMAIN map : map[n] = kind}

(* Mutant of PlainPassword: a user name without a password is let through. *)
PlainPasswordSet(s) == s.mail_encryption = "none" /\ s.mail_password /\ ~s.mail_loopback

(* check_encryption returns early on a keyword that it does not know. *)
PlainPassword(s) == s.mail_encryption = "none" /\ s.mail_username /\ ~s.mail_loopback

Errors(s) ==
    OutOfConstraint(s)
    \cup {"reserved" : n \in DOMAIN s.plugins \cap {Builtin}}
    \cup {"empty_path" : n \in Entries(s.plugins, "empty") \cup Entries(s.exec_whitelist, "empty")}
    \cup {r \in {"sender"} : s.mail_from = "invalid"}
    \cup {r \in {"plain_password"} : PlainPassword(s)}

Warnings(s) ==
    {"missing_path" : n \in Entries(s.plugins, "missing") \cup Entries(s.exec_whitelist, "missing")}
    \cup {r \in {"no_password"} : s.mail_username /\ ~s.mail_password}
    \cup {r \in {"password_ignored"} : s.mail_password /\ ~s.mail_username}
    \cup {r \in {"mail_port"} :
              \/ s.mail_encryption = "tls" /\ s.mail_port \in {25, 587}
              \/ s.mail_encryption = "starttls" /\ s.mail_port = 465}
    \cup {r \in {"no_consumers"} : s.queue_primary = 0 /\ s.queue_secondary = 0}
    \cup {r \in {"redis_database"} : s.redis_database >= 16}

-----------------------------------------------------------------------------
(* runtime.rs *)

(* The values a field of the settings can hold: u16, u8, usize, u32, Duration
   and the keyword enums. No value near 2^32 is in a spec, so that the wide types
   are Nat. mib_to_bytes multiplies, and fails when the bytes are no usize. *)
U8  == 0 .. 255
U16 == 0 .. 65535

Narrow ==
    [mail_port |-> U16, mail_encryption |-> Constraint.mail_encryption,
     queue_primary |-> Nat, queue_secondary |-> Nat,
     queue_driver |-> Constraint.queue_driver, queue_max_retries |-> Nat,
     redis_port |-> U16, redis_database |-> U8,
     limits_timeout |-> Nat, limits_memory_mib |-> 0 .. AddressableMib]

(* Settings::lower: the errors it adds to the report. The value is None with one,
   else the spec, narrowed. *)
LowerErrors(s) == {f \in DOMAIN Narrow : s[f] \notin Narrow[f]}

(* check_and_lower *)
CheckAndLower(s) ==
    IF Errors(s) # {} \/ LowerErrors(s) # {} THEN "none" ELSE "settings"

(* mail_transport of server/notify.rs: how mail travels, and with what. *)
MailTransport(s) ==
    [encrypted |-> s.mail_encryption \in {"starttls", "tls"},
     credentials |-> s.mail_username]

=============================================================================

----------------------------- MODULE MCStartup ------------------------------
(* A small instance of Startup for TLC. *)
EXTENDS Startup

CONSTANTS p, q, a1, a2, b1

(* Two components of one plugin that list the same command, and the directories
   of another plugin and of one with the reserved name. *)
WasmFiles == [n \in {p, q, Builtin} |-> IF n = p THEN <<a1, a2>> ELSE <<b1>>]

ListCommands == [c \in {a1, a2, b1} |-> IF c = a2 THEN <<"x", "y">> ELSE <<"x">>]

ListSchedules == [c \in {a1, a2, b1} |->
    CASE c = a1 -> <<[command |-> "x", cron |-> "valid"], [command |-> "y", cron |-> "valid"]>>
      [] c = a2 -> <<[command |-> "y", cron |-> "invalid"]>>
      [] OTHER  -> <<>>]

Listing(dirs) == [DefaultSpec EXCEPT !.plugins = dirs, !.limits_timeout = 1,
                                     !.limits_memory_mib = 16]

(* Plugins, with short limits. *)
PluginSpecs ==
    {Listing([n \in {p, q} |-> "exists"]),
     Listing([n \in {p} |-> "missing"]), Listing([n \in {p} |-> "empty"]),
     Listing([n \in {p, Builtin} |-> "exists"])}

(* Every field below, at and above its bounds, and no keyword. *)
BoundarySpecs ==
    {[DefaultSpec EXCEPT ![f] = v] :
        f \in DOMAIN Constraint \ {"mail_encryption", "queue_driver", "queue_name"},
        v \in {-1, 0, 1, 15, 16, 17, 100, 101, 253, 254, 255, 256, 1024, 1025, 4096,
               4097, 65535, 65536, 86400, 86401}}
    \cup {[DefaultSpec EXCEPT ![f] = "other"] :
             f \in {"mail_encryption", "queue_driver", "queue_name"}}

(* Every mail server. *)
MailSpecs ==
    {[DefaultSpec EXCEPT !.mail_loopback = l, !.mail_username = u, !.mail_password = w,
                         !.mail_encryption = e, !.mail_from = f] :
        l \in BOOLEAN, u \in BOOLEAN, w \in BOOLEAN,
        e \in {"none", "starttls", "tls", "other"}, f \in {"empty", "mailbox", "invalid"}}

AllSpecs == PluginSpecs \cup BoundarySpecs \cup MailSpecs

=============================================================================

------------------------------ MODULE FileStore -----------------------------
(***************************************************************************)
(* The directories of one lane of the file driver, and the file-system     *)
(* calls the driver makes on them (queue/driver/file/dir.rs, store.rs).    *)
(*                                                                         *)
(* file[d][n] is the content of the file named n in directory d. The       *)
(* hidden name ".n.settling" in the in-progress directory is modelled as   *)
(* file["settling"][n]: list_messages never shows it and only the settle   *)
(* path, recover and clear look for it. A rename is the only way a file    *)
(* changes place, it is atomic, and it overwrites whatever has the target  *)
(* name. A temporary file has a name of its own until the rename that      *)
(* gives it its message name, and no operation but its writer reads it, so *)
(* it is not a file of the model.                                          *)
(*                                                                         *)
(* new_message_name makes a UUID v7: a name never seen before, which sorts *)
(* after every earlier name. Names are the numbers 1..MaxName, handed out  *)
(* in order.                                                               *)
(***************************************************************************)
EXTENDS Envelope

CONSTANTS MaxName,   \* bound on the file names a behaviour uses
          NoFile     \* no file has this path

ASSUME StoreAssumption == MaxName \in Nat /\ NoFile \notin CommandEnvelope

VARIABLES file,      \* [Dir -> [Name -> CommandEnvelope \cup {NoFile}]]
          nextName   \* the next name new_message_name returns

storeVars == <<file, nextName>>

Dir == {"pending", "inProgress", "settling", "failed"}
Name == 1..MaxName

StoreTypeOK ==
    /\ file \in [Dir -> [Name -> CommandEnvelope \cup {NoFile}]]
    /\ nextName \in 1..(MaxName + 1)

StoreInit ==
    /\ file = [d \in Dir |-> [n \in Name |-> NoFile]]
    /\ nextName = 1

Exists(d, n) == file[d][n] # NoFile

(* list_messages and unfinished_settles: a snapshot of one directory. *)
ListMessages(d) == {n \in Name : Exists(d, n)}

(* The listings are sorted, so a loop over one takes its oldest name first. *)
Oldest(names) == {n \in names : \A m \in names : n <= m}

(* new_message_name: only while the bound on names allows one more. *)
NewName(n) == n = nextName /\ n \in Name /\ nextName' = nextName + 1

(* fs::rename of an existing file. *)
Renamed(d, n, e, m) == [file EXCEPT ![d][n] = NoFile, ![e][m] = file[d][n]]

(* rename_if_present: nothing happens when there is no such file. *)
RenamedIfPresent(d, n, e, m) ==
    IF Exists(d, n) THEN Renamed(d, n, e, m) ELSE file

(* remove_if_present. *)
Removed(d, n) == [file EXCEPT ![d][n] = NoFile]

(* write_atomic, from the rename on: the whole content appears at once. *)
Written(d, n, e) == [file EXCEPT ![d][n] = e]

=============================================================================

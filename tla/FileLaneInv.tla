---------------------------- MODULE FileLaneInv -----------------------------
(***************************************************************************)
(* The inductive invariant behind the safety properties of FileLane, in    *)
(* named parts. TLC checks it on small instances, FileLaneProofs proves    *)
(* it.                                                                     *)
(***************************************************************************)
EXTENDS FileLane

(* What a consumer holds at each point of its program. *)
Copying == {"sync", "remove", "drop"}
Moving == Copying \cup {"rename", "exists", "write", "undo"}
Settling == Moving \cup {"ack", "backoff"}
Delivered == Settling \cup {"begin", "running"}
Claimed == Delivered \cup {"read", "unreadable"}

(* A receipt, a delivery, the end of the attempt and the written copy are  *)
(* there when the code uses them.                                          *)
PcOKOf(c) ==
    /\ pc[c] \in Claimed <=> name[c] # 0
    /\ pc[c] \in Delivered => env[c] \in CommandEnvelope
    /\ pc[c] \in Settling <=> kind[c] # "none"
    /\ pc[c] \in Moving => kind[c] # "succeeded"
    /\ pc[c] = "ack" => kind[c] = "succeeded"
    /\ pc[c] \in Copying => newName[c] \in Name

PcOK == \A c \in Consumer : PcOKOf(c)

(* The server's tasks exist only while it runs. *)
ServerTasks ==
    server # "running" => \A c \in ServerConsumer : pc[c] = "stopped"

(* Names are handed out once. *)
NamesUsed ==
    /\ \A d \in Dir, n \in Name : Exists(d, n) => n < nextName
    /\ \A c \in Consumer : name[c] < nextName /\ newName[c] < nextName

(* A held file is back in pending only after a recover. *)
PendingClaims ==
    \A c \in Consumer :
        pc[c] \in Claimed /\ Exists("pending", name[c]) => name[c] \in recovered

(* The count a delivery will store: until the attempt has ended, the claim *)
(* is one ahead of the failures; what a settle writes no longer is.        *)
DeliveryCharges ==
    \A c \in Consumer :
        pc[c] \in Delivered =>
            /\ env[c].attempts <= counted[env[c].id] + 1
            /\ kind[c] \in CountedKind \cup {"interrupted"}
                  => env[c].attempts <= counted[env[c].id]

(* The files of a claim, and of the copy a settle has written, belong to   *)
(* the message of the delivery.                                            *)
SameMessage ==
    \A c \in Consumer, d \in Dir :
        /\ pc[c] \in Delivered /\ Exists(d, name[c])
              => file[d][name[c]].id = env[c].id
        /\ pc[c] \in Copying /\ Exists(d, newName[c])
              => file[d][newName[c]].id = env[c].id

(* A copy is newer than the file it replaces, and has one writer. *)
CopiesAreNew ==
    \A c \in Consumer : pc[c] \in Copying =>
        /\ name[c] < newName[c]
        /\ \A b \in Consumer : b # c /\ pc[b] \in Copying => newName[b] # newName[c]

(* A success is on record before the message is acknowledged. *)
SuccessRecorded ==
    \A c \in Consumer : kind[c] = "succeeded" => env[c].id \in succeeded

(* A copy is provisional while its writer may still remove it. *)
Kept(n) == \A c \in Consumer : pc[c] \in Copying => newName[c] # n

Ended(m) == m \in succeeded \/ m \in cleared

(* Every message that has not ended has a file nobody is about to drop... *)
KeptFile ==
    \A m \in published : ~Ended(m) => \E n \in Name : Holds(n, m) /\ Kept(n)

(* ... and so will have a settle, after it removes the file it replaces:   *)
(* its own copy, or a newer file that has taken the place of that copy.    *)
CopyFollows ==
    \A c \in Consumer : pc[c] \in {"sync", "remove"} /\ ~Ended(env[c].id) =>
        \E n \in Name : /\ n >= newName[c]
                        /\ Holds(n, env[c].id)
                        /\ n = newName[c] \/ Kept(n)

(* Without a failed call nobody is on an error path. *)
NoErrorPath ==
    faults = 0 => \A c \in Consumer : pc[c] \notin {"undo", "backoff", "unreadable"}

(* A name a consumer has claimed is never one of a failed file. *)
FailedUnclaimed == \A c \in Consumer : pc[c] \in Claimed => ~Exists("failed", name[c])

(* The name n can still bring about a run of m: its file waits, or has been *)
(* claimed and not yet read, or its consumer has m and no copy of it yet.   *)
Carrying == {"begin", "running", "rename", "exists", "write"}

Carries(n, m) ==
    \/ \E d \in {"pending", "failed"} : Exists(d, n) /\ file[d][n].id = m
    \/ \E c \in Consumer :
         /\ name[c] = n
         /\ \/ pc[c] = "read" /\ Exists("inProgress", n) /\ file["inProgress"][n].id = m
            \/ pc[c] \in Carrying /\ env[c].id = m

(* Each message has at most one such name, and none once it has succeeded. *)
OneCarrier ==
    Undisturbed =>
        /\ succeeded \subseteq published
        /\ \A m \in Msg :
             /\ \A n, k \in Name : Carries(n, m) /\ Carries(k, m) => n = k
             /\ m \in succeeded \/ m \notin published => \A n \in Name : ~Carries(n, m)

(* The invariant: each part above holds in every state, under every        *)
(* interleaving of the file-system calls of move_claimed, claim_oldest,    *)
(* recover, clear and republish_failed.                                    *)
IInv ==
    /\ TypeOK /\ PcOK /\ ServerTasks /\ NamesUsed /\ OnePlacePerName
    /\ PendingClaims /\ ClaimIsExclusive
    /\ NoAttemptOvercharged /\ DeliveryCharges
    /\ SameMessage /\ CopiesAreNew /\ SuccessRecorded /\ KeptFile /\ CopyFollows
    /\ NoErrorPath /\ InProgressIsHeld /\ FailedUnclaimed /\ OneCarrier

=============================================================================

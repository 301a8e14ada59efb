---------------------------- MODULE WatchChannel ----------------------------
(***************************************************************************)
(* What efsw-agent promises its client: one reply to every request, in the *)
(* order of the requests, and between WATCH_OK and UNWATCH what changes in *)
(* the directory of the watch, and in no other.                            *)
(*                                                                         *)
(* The agent's threads, queues and maps are not here; Agent implements     *)
(* this specification.                                                     *)
(***************************************************************************)
EXTENDS Naturals, Sequences

CONSTANTS Ids, Paths

VARIABLES
    changes,   \* changes made to each directory so far
    client,    \* the state of each id, and its directory
    known,     \* the changes the client knows of, by id
    pending,   \* requests that have no reply yet
    open       \* the client reads

vars == <<changes, client, known, pending, open>>

NotUsed == [state |-> "none"]
Made(path) == {path} \X (1..changes[path])

Init ==
    /\ changes = [p \in Paths |-> 0]
    /\ client = [id \in Ids |-> NotUsed] /\ known = [id \in Ids |-> {}]
    /\ pending = <<>> /\ open = TRUE

Change(path) ==
    /\ changes' = [changes EXCEPT ![path] = @ + 1]
    /\ UNCHANGED <<client, known, pending, open>>

Ask(request) == pending' = IF open THEN Append(pending, request) ELSE pending

Watch(id, path) ==
    /\ client[id] = NotUsed
    /\ client' = [client EXCEPT ![id] = [state |-> "asked", path |-> path]]
    /\ Ask([kind |-> "watch", id |-> id])
    /\ UNCHANGED <<changes, known, open>>
Unwatch(id) ==
    /\ client[id].state \in {"asked", "watching"}
    /\ client' = [client EXCEPT ![id].state = "leaving"]
    /\ Ask([kind |-> "unwatch", id |-> id])
    /\ UNCHANGED <<changes, known, open>>
Other ==
    /\ Ask([kind |-> "other"])
    /\ UNCHANGED <<changes, client, known, open>>

\* A watch begins with a listing of its directory; it may also be refused.
Started(id) ==
    IF client[id].state = "asked"
    THEN /\ client' = [client EXCEPT ![id].state = "watching"]
         /\ known' = [known EXCEPT ![id] = Made(client[id].path)]
    ELSE UNCHANGED <<client, known>>
Refused(id) ==
    /\ client' = [client EXCEPT ![id] = IF @.state = "asked" THEN NotUsed ELSE @]
    /\ UNCHANGED known
Ended(id) ==
    /\ client' = [client EXCEPT ![id] = NotUsed]
    /\ known' = [known EXCEPT ![id] = {}]

Reply ==
    /\ open /\ pending # <<>>
    /\ pending' = Tail(pending)
    /\ LET request == Head(pending) IN
       \/ request.kind = "watch" /\ (Started(request.id) \/ Refused(request.id))
       \/ request.kind = "unwatch" /\ Ended(request.id)
       \/ request.kind = "other" /\ UNCHANGED <<client, known>>
    /\ UNCHANGED <<changes, open>>

\* The client learns of some changes, all of its directory.
Learn(id) ==
    /\ open /\ client[id].state = "watching"
    /\ \E more \in SUBSET Made(client[id].path) :
        known' = [known EXCEPT ![id] = @ \cup more]
    /\ UNCHANGED <<changes, client, pending, open>>

HangUp ==
    /\ open' = FALSE /\ pending' = <<>>
    /\ UNCHANGED <<changes, client, known>>

Next ==
    \/ \E path \in Paths : Change(path)
    \/ \E id \in Ids : Unwatch(id) \/ Learn(id) \/ \E path \in Paths : Watch(id, path)
    \/ Other \/ Reply \/ HangUp

Spec == Init /\ [][Next]_vars
=============================================================================

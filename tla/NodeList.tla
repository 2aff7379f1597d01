------------------------------ MODULE NodeList ------------------------------
(***************************************************************************)
(* The lists of monitored nodes, pkg/storing/nodes: two slices in memory   *)
(* under a lock, written after every change to a file or to a Vault secret *)
(* and loaded from there at the next start.                                *)
(*                                                                         *)
(* Nodes returns the slice itself, so its caller (the pair server, which   *)
(* serializes it for a bot) reads the elements after the lock is released, *)
(* while another bot's request moves elements within the same array or     *)
(* changes the alias of one.  What is read of an element while it is       *)
(* overwritten is any value at all, except where both values are the same. *)
(* Of an alias, only whether it was read like that is modelled; it decides *)
(* nothing about what is stored or when, nor does the Enabled flag.        *)
(***************************************************************************)
EXTENDS Integers, Sequences

ListNames == {"common", "specific"}

CONSTANTS
    Urls,        \* URLs the bots send
    Configured,  \* the sequence of nodes given on the command line
    NoUrl,       \* the URL of a zero entities.Node
    Bound,       \* bound of the length of each list
    Torn         \* what a read that races with a write of the element returns

ASSUME NodeListAssumption ==
    /\ Configured \in Seq(Urls)
    /\ \A i, j \in 1..Len(Configured) : Configured[i] = Configured[j] => i = j
    /\ \A l \in ListNames : Bound[l] \in Nat
    /\ NoUrl \notin Urls /\ Torn \notin Urls

VARIABLES
    backend,   \* "file" or "vault"
    file,      \* the file or the secret: absent, torn, or lists that are ok
    lists,     \* the two lists in memory
    op,        \* none; sync and write while the lock is held for a change;
               \* down while the program does not run
    starting,  \* the change being written is the one of populate
    reading,   \* the list that is being serialized, or "none"
    slots,     \* the array elements the reader's slice covers
    shared,    \* that array is still the one of the list
    shown,     \* the elements serialized so far, as Read or Racing made them
    stayed,    \* nodes that were in the list ever since Nodes returned it
    renamed,   \* nodes of that list whose alias was changed since
    grown,     \* a node was added to that list since
    clean,     \* the last change of the lists was written successfully
    before     \* the lists when the program ended after a successful write

readerVars  == <<reading, slots, shared, shown, stayed, renamed, grown>>
historyVars == <<clean, before>>

vars == <<backend, file, lists, op, starting, readerVars, historyVars>>

Empty == [l \in ListNames |-> <<>>]

Absent      == [state |-> "absent", lists |-> Empty]
TornFile    == [state |-> "torn", lists |-> Empty]
Holding(ls) == [state |-> "ok", lists |-> ls]

Elements(s) == {s[i] : i \in 1..Len(s)}

Init ==
    /\ backend \in {"file", "vault"}
    /\ file = Absent
    /\ lists = Empty
    /\ op = "down"
    /\ starting = FALSE
    /\ reading = "none" /\ slots = <<>> /\ shared = FALSE /\ shown = <<>>
    /\ stayed = {} /\ renamed = {} /\ grown = FALSE
    /\ clean = FALSE /\ before = Empty

-----------------------------------------------------------------------------
(***************************************************************************)
(* The slices                                                              *)
(***************************************************************************)
appendIfNew(s, u) == IF u \in Elements(s) THEN s ELSE Append(s, u)

\* Seeded error: the element after the last one is cleared as well.
\* (Same as slotsAfterDelete otherwise.)
slotsAfterDeleteCleared(s, u, arr) ==
    LET i == CHOOSE k \in 1..Len(s) : s[k] = u
    IN  [k \in 1..Len(arr) |-> IF k = Len(s) THEN NoUrl
                               ELSE IF k = i THEN s[Len(s)] ELSE arr[k]]

\* The last element takes the place of the deleted one.
deleteFound(s, u) ==
    LET i == CHOOSE k \in 1..Len(s) : s[k] = u
    IN  SubSeq([s EXCEPT ![i] = s[Len(s)]], 1, Len(s) - 1)

\* What deleteIfFound does to the part of the array a reader looks at.
slotsAfterDelete(s, u, arr) ==
    LET i == CHOOSE k \in 1..Len(s) : s[k] = u
    IN  [k \in 1..Len(arr) |-> IF k = i THEN s[Len(s)] ELSE arr[k]]

-----------------------------------------------------------------------------
(***************************************************************************)
(* Start: createDBFileIfNotExist, then loading and populate                *)
(***************************************************************************)
\* A program that ends while it creates the file leaves it without contents.
CreateFile(complete) ==
    /\ op = "down"
    /\ backend = "file" /\ file = Absent
    /\ file' = IF complete THEN Holding(Empty) ELSE TornFile
    /\ clean' = complete
    /\ UNCHANGED <<backend, lists, op, starting, readerVars, before>>

\* populate: the configured nodes that are not in the common list yet.
Populated(s) ==
    LET add[i \in 0..Len(Configured)] ==
            IF i = 0 THEN s ELSE appendIfNew(add[i - 1], Configured[i])
    IN  add[Len(Configured)]

Start ==
    /\ op = "down"
    /\ file.state # "torn"
    /\ backend = "file" => file.state = "ok"
    /\ lists' = [file.lists EXCEPT !["common"] = Populated(@)]
    /\ IF lists' = file.lists
       THEN op' = "none" /\ starting' = FALSE /\ clean' = (file.state = "ok")
       ELSE op' = "sync" /\ starting' = TRUE /\ clean' = FALSE
    /\ before' = Empty
    /\ UNCHANGED <<backend, file, readerVars>>

\* A file that is not JSON: the program ends with an error.
StartRefused ==
    /\ op = "down"
    /\ file.state = "torn"
    /\ UNCHANGED vars

\* The program ends at any point, with everything it has in memory.
Crash ==
    /\ op # "down"
    /\ op' = "down"
    /\ before' = IF clean THEN lists ELSE Empty
    /\ lists' = Empty
    /\ starting' = FALSE
    /\ reading' = "none" /\ slots' = <<>> /\ shared' = FALSE /\ shown' = <<>>
    /\ stayed' = {} /\ renamed' = {} /\ grown' = FALSE
    /\ UNCHANGED <<backend, file, clean>>

-----------------------------------------------------------------------------
(***************************************************************************)
(* Requests that change a list                                             *)
(***************************************************************************)
\* What a reader serializes of an element that holds u and of one that is being
\* written; if the URL is written as well, u is Torn.
Read(u)   == [url |-> u, alias |-> "whole"]
Racing(u) == [url |-> u, alias |-> Torn]

\* The element k of the array is written: a reader that is at it may get neither
\* the old value nor the new one.
ShownDuringWrite(l, k, u) ==
    IF reading = l /\ shared /\ k = Len(shown) + 1 /\ k <= Len(slots)
    THEN {shown, Append(shown, Racing(u))}
    ELSE {shown}

\* append writes into a free element of the array, which the reader's slice
\* covers if the list is shorter than it was; otherwise the element is outside
\* of it, or append moves the list to a new array.
Insert(l, u) ==
    /\ op = "none"
    /\ u \notin Elements(lists[l])
    /\ Len(lists[l]) < Bound[l]
    /\ lists' = [lists EXCEPT ![l] = appendIfNew(@, u)]
    /\ IF reading = l /\ shared /\ Len(lists[l]) < Len(slots)
       THEN /\ slots' = [slots EXCEPT ![Len(lists[l]) + 1] = u]
            /\ shared' = shared
       ELSE /\ slots' = slots
            /\ shared' \in (IF reading = l /\ shared THEN BOOLEAN ELSE {shared})
    /\ shown' \in ShownDuringWrite(l, Len(lists[l]) + 1, Torn)
    /\ grown' = (grown \/ reading = l)
    /\ op' = "sync"
    /\ clean' = FALSE
    /\ UNCHANGED <<backend, file, starting, reading, stayed, renamed, before>>

\* Seeded error: a node deleted from the specific list is not written.
DeleteWithoutSync(u) ==
    LET l == IF u \in Elements(lists["common"]) THEN "common" ELSE "specific" IN
    /\ op = "none"
    /\ u \in Elements(lists[l])
    /\ lists' = [lists EXCEPT ![l] = deleteFound(@, u)]
    /\ IF l = "common" THEN op' = "sync" /\ clean' = FALSE
                       ELSE UNCHANGED <<op, clean>>
    /\ UNCHANGED <<backend, file, starting, readerVars, before>>

\* The first list that has the node loses it.
Delete(u) ==
    LET l == IF u \in Elements(lists["common"]) THEN "common" ELSE "specific" IN
    /\ op = "none"
    /\ u \in Elements(lists[l])
    /\ lists' = [lists EXCEPT ![l] = deleteFound(@, u)]
    /\ slots' = IF reading = l /\ shared
                THEN slotsAfterDelete(lists[l], u, slots) ELSE slots
    /\ shown' \in ShownDuringWrite(l, CHOOSE k \in 1..Len(lists[l]) : lists[l][k] = u, Torn)
    /\ stayed' = IF reading = l THEN stayed \ {u} ELSE stayed
    /\ op' = "sync"
    /\ clean' = FALSE
    /\ UNCHANGED <<backend, file, starting, reading, shared, renamed, grown, before>>

\* An alias is changed, in the first list that has the node: the element is
\* overwritten in place (n[i] = updated), with a URL that has the same bytes, and
\* the lists are written again.
Update(u) ==
    LET l == IF u \in Elements(lists["common"]) THEN "common" ELSE "specific" IN
    /\ op = "none"
    /\ u \in Elements(lists[l])
    /\ shown' \in ShownDuringWrite(l, CHOOSE k \in 1..Len(lists[l]) : lists[l][k] = u, u)
    /\ renamed' = IF reading = l THEN renamed \cup {u} ELSE renamed
    /\ op' = "sync"
    /\ clean' = FALSE
    /\ UNCHANGED <<backend, file, lists, starting, reading, slots, shared, stayed, grown,
                   before>>

-----------------------------------------------------------------------------
(***************************************************************************)
(* syncDB, with the lock held                                              *)
(***************************************************************************)
\* os.WriteFile truncates the file before it writes.
SyncTruncate ==
    /\ op = "sync"
    /\ backend = "file"
    /\ file' = TornFile
    /\ op' = "write"
    /\ UNCHANGED <<backend, lists, starting, readerVars, historyVars>>

SyncDone ==
    /\ op = IF backend = "file" THEN "write" ELSE "sync"
    /\ file' = Holding(lists)
    /\ op' = "none"
    /\ starting' = FALSE
    /\ clean' = TRUE
    /\ UNCHANGED <<backend, lists, readerVars, before>>

\* The lists in memory stay changed, except at the start, where the program
\* ends.  A Put that Vault reports as failed may have been done.
SyncFail ==
    /\ op \in {"sync", "write"}
    /\ file' \in (IF backend = "vault" THEN {file, Holding(lists)} ELSE {file})
    /\ op' = IF starting THEN "down" ELSE "none"
    /\ lists' = IF starting THEN Empty ELSE lists
    /\ starting' = FALSE
    /\ UNCHANGED <<backend, readerVars, historyVars>>

-----------------------------------------------------------------------------
(***************************************************************************)
(* Nodes and the serialization of what it returns                          *)
(***************************************************************************)
Nodes(l) ==
    /\ op = "none"
    /\ reading = "none"
    /\ reading' = l
    /\ slots' = lists[l]
    /\ shared' = TRUE
    /\ shown' = <<>>
    /\ stayed' = Elements(lists[l])
    /\ renamed' = {}
    /\ grown' = FALSE
    /\ UNCHANGED <<backend, file, lists, op, starting, historyVars>>

SerializeNext ==
    /\ reading # "none"
    /\ Len(shown) < Len(slots)
    /\ shown' = Append(shown, Read(slots[Len(shown) + 1]))
    /\ UNCHANGED <<backend, file, lists, op, starting, reading, slots, shared,
                   stayed, renamed, grown, historyVars>>

SerializeDone ==
    /\ reading # "none"
    /\ Len(shown) = Len(slots)
    /\ reading' = "none" /\ slots' = <<>> /\ shared' = FALSE /\ shown' = <<>>
    /\ stayed' = {} /\ renamed' = {} /\ grown' = FALSE
    /\ UNCHANGED <<backend, file, lists, op, starting, historyVars>>

-----------------------------------------------------------------------------
Next ==
    \/ \E complete \in BOOLEAN : CreateFile(complete)
    \/ Start \/ StartRefused \/ Crash
    \/ \E l \in ListNames, u \in Urls : Insert(l, u)
    \/ \E u \in Urls : Delete(u) \/ Update(u)
    \/ SyncTruncate \/ SyncDone \/ SyncFail
    \/ \E l \in ListNames : Nodes(l)
    \/ SerializeNext \/ SerializeDone

Spec == Init /\ [][Next]_vars

-----------------------------------------------------------------------------
(***************************************************************************)
(* Properties                                                              *)
(***************************************************************************)
UniqueSeq == {s \in Seq(Urls) : \A i, j \in 1..Len(s) : s[i] = s[j] => i = j}

TypeOK ==
    /\ backend \in {"file", "vault"}
    /\ \A l \in ListNames : lists[l] \in UniqueSeq
    /\ file.state \in {"absent", "torn", "ok"}
    /\ \A l \in ListNames : file.lists[l] \in UniqueSeq
    /\ op \in {"none", "sync", "write", "down"}
    /\ {starting, shared, clean, grown} \subseteq BOOLEAN
    /\ stayed \subseteq Urls /\ renamed \subseteq Urls
    /\ reading \in ListNames \cup {"none"}
    /\ Len(shown) <= Len(slots)

\* Once a change is written, what is stored is what the program has in memory,
\* and it stays so when the program ends: a crash outside of a change loses
\* nothing, whatever changes failed before and whichever list they were about
\* (nodes_json.go 101-110 and 220-278, nodes_json_vault_storage.go 30-37).
WrittenSurvives ==
    clean => /\ op = "none" => file = Holding(lists)
             /\ op = "down" => file = Holding(before)

\* An alias that is changed while it is read is not told.
IsShown(u) ==
    \/ Read(u) \in Elements(shown)
    \/ u \in renamed /\ Racing(u) \in Elements(shown)

\* The list of nodes a bot is shown has every node that was in the list all the
\* time while it was read, although deletions move elements under the reader and
\* may tear what it reads: deleteIfFound leaves the element it moves where it
\* was.  Only a node that is added meanwhile may hide another one, and a node is
\* shown with its alias, by which the bots name it, unless that is changed
\* meanwhile (nodes_json.go 42-50, 62-70 and 199-204, server.go 161-177,
\* environment.go 417-424).
StayersShown ==
    (reading # "none" /\ Len(shown) = Len(slots) /\ ~grown)
        => \A u \in stayed : IsShown(u)
=============================================================================

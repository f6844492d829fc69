---------------------------- MODULE DurableStore ----------------------------
(***************************************************************************)
(* What the engine promises its callers: a store whose reads return the    *)
(* latest committed state while it is up, and which forgets at most the    *)
(* commits behind the last durable one when it goes down.  WAL generations,*)
(* memtables, segments, flushes and compactions are not visible here.      *)
(***************************************************************************)
EXTENDS Integers

CONSTANTS MaxId, MaxSeq   \* bounds: record ids and commits

Ids      == 1..MaxId
Versions == [id : Ids, seq : 1..MaxSeq, del : BOOLEAN]

VARIABLES
    up,         \* reads and writes are accepted
    history,    \* the committed versions
    durable,    \* the ones a crash keeps
    visible     \* visible[i]: the version a read of i returns, if any

vars == <<up, history, durable, visible>>

\* The value of i after the commits H: the latest version, unless it is a tombstone.
Value(H, i) == {v \in H : /\ v.id = i /\ ~v.del
                          /\ \A w \in H : w.id = i => w.seq <= v.seq}

Reads(H) == [i \in Ids |-> Value(H, i)]
NoReads  == [i \in Ids |-> {}]

Init == up = FALSE /\ history = {} /\ durable = {} /\ visible = NoReads

Open ==
    /\ ~up /\ up' = TRUE
    /\ visible' = Reads(history)
    /\ UNCHANGED <<history, durable>>

\* A commit is atomic and has a sequence number of its own, later than all before it.
Commit ==
    /\ up /\ UNCHANGED up
    /\ \E s \in 1..MaxSeq :
          /\ \A v \in history : v.seq < s
          /\ history' # history
          /\ history \subseteq history'
          /\ history' \ history \subseteq {v \in Versions : v.seq = s}
    /\ durable' \in {durable, history'}
    /\ visible' = Reads(history')

Sync ==
    /\ durable' = history
    /\ UNCHANGED <<up, history, visible>>

Close ==
    /\ up /\ up' = FALSE
    /\ durable' \in {durable, history}
    /\ visible' = NoReads
    /\ UNCHANGED history

\* A crash keeps every durable commit and a prefix of the others.
Crash ==
    /\ up' = FALSE
    /\ \E n \in 0..MaxSeq : history' = durable \cup {v \in history : v.seq <= n}
    /\ durable' = history'
    /\ visible' = NoReads

Next == Open \/ Commit \/ Sync \/ Close \/ Crash

Spec == Init /\ [][Next]_vars
=============================================================================

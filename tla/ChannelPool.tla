---------------------------- MODULE ChannelPool ----------------------------
(***************************************************************************)
(* The connections of a client (internal/common_client.h: CommonClient).   *)
(* They are created by the first thread that needs one, without the mutex, *)
(* and used in turn; reset() drops them at any time.  A stub is named like *)
(* the channel it is made from, so that Channel() returns what Stub() does.*)
(***************************************************************************)
EXTENDS Naturals, Sequences, FiniteSets

CONSTANTS Thread,
          ConnectionPoolSize,
          MaxResets            \* bound: how often reset() is called

(* set_connection_pool_size() throws for 0.                                *)
ASSUME PoolAssumption == ConnectionPoolSize \in Nat \ {0} /\ MaxResets \in Nat

VARIABLES stubs_, channels_, current_index_,
          creating,   \* the threads that create channels, without the mutex
          resets,     \* history: the calls of reset()
          uses        \* history: how often each connection was used since,
                      \* beyond the one used least

poolVars == <<stubs_, channels_, current_index_, creating, resets, uses>>

NoUses == [i \in 1..ConnectionPoolSize |-> 0]

PoolInit ==
  /\ stubs_ = <<>> /\ channels_ = <<>> /\ current_index_ = 0
  /\ creating = {} /\ resets = 0 /\ uses = NoUses

CreateChannelPool(t) == [i \in 1..ConnectionPoolSize |-> <<t, i>>]

(* GetIndex(): the next index.                                             *)
Following(index, size) == IF index + 1 >= size THEN 0 ELSE index + 1

(* The mutex is held: the connection at the current index is used.         *)
Use(stubs, index) ==
  /\ stubs_' = stubs
  /\ current_index_' = Following(index, Len(stubs))
  /\ uses' = LET now == [uses EXCEPT ![index + 1] = @ + 1]
             IN  IF \A i \in DOMAIN now : now[i] > 0
                 THEN [i \in DOMAIN now |-> now[i] - 1] ELSE now

(* CheckConnections() finds no connections and releases the mutex.         *)
CheckConnections(t) ==
  /\ stubs_ = <<>> /\ t \notin creating
  /\ creating' = creating \cup {t}
  /\ UNCHANGED <<stubs_, channels_, current_index_, resets, uses>>

(* Fault: what another thread has installed meanwhile is replaced.         *)
KeepInstalled_Never(t) == FALSE

(* The channels of thread t are of no use if there are others by now.      *)
KeepInstalled(t) == stubs_ # <<>>

(* Stub(): at once, or after the thread has created channels.              *)
Stub(t) ==
  LET created == CreateChannelPool(t)
  IN  /\ stubs_ # <<>> \/ t \in creating
      /\ IF t \in creating /\ ~KeepInstalled(t)
           THEN channels_' = created /\ Use(created, 0)
           ELSE channels_' = channels_ /\ Use(stubs_, current_index_)
      /\ creating' = creating \ {t}
      /\ UNCHANGED resets

(* reset(): the index and the channels stay.                               *)
Reset ==
  /\ resets < MaxResets
  /\ resets' = resets + 1
  /\ stubs_' = <<>> /\ uses' = NoUses
  /\ UNCHANGED <<channels_, current_index_, creating>>

-----------------------------------------------------------------------------

(* The connections are used in turn (common_client.h:35: "round-robin      *)
(* across the channels") although several threads may create them: the     *)
(* index is always one of the pool, for stubs as well as for channels, and *)
(* since the last reset() no connection has been used more than once more  *)
(* than another.                                                           *)
UsedInTurn ==
  /\ stubs_ # <<>> => stubs_ = channels_ /\ current_index_ < Len(stubs_)
  /\ \A i \in DOMAIN uses : uses[i] <= 1

=============================================================================

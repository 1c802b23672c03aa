----------------------------- MODULE MessageCache -----------------------------
(***************************************************************************)
(* vtelem/message/cache.py: messages are re-assembled from the fragments   *)
(* that message frames carry, keyed by the message's checksum, while the   *)
(* frames are lost, re-ordered and repeated, and the process restarts.     *)
(*                                                                         *)
(* There are two stores.  A fragment goes to memory and to its file at     *)
(* once; how many fragments were counted, and whether the message is       *)
(* complete, is in DataCache's dictionary, which only write() saves.       *)
(*                                                                         *)
(* Every frame of every message may arrive at any time, any number of      *)
(* times, or never.  A message's number and the bytes of a fragment play   *)
(* no part here: two messages are two checksums.                           *)
(***************************************************************************)
EXTENDS Integers, FiniteSets

CONSTANTS
  Messages,   \* messages, each with a checksum of its own
  Types,      \* message types
  TypeOf,     \* the type of each message
  Total       \* total_fragments of each message

ASSUME CacheAssumption ==
  /\ TypeOf \in [Messages -> Types]
  /\ Total \in [Messages -> Nat \ {0}]

VARIABLES
  up,       \* "up", "down", or "failed": the constructor raised
  typed,    \* has self.data its entry for every message type?
  count,    \* self.data[...]["fragments"]
  complete, \* the messages with self.data[...]["complete"]
  mem,      \* self.fragment_data: the fragments of each message
  disk,     \* the fragment files of each message
  saved,    \* the dictionary that write() has saved, with its history
  called,   \* callbacks made for each message since the process started
  counted,  \* the fragments that count stands for (history)
  since     \* the fragments that have arrived since the start (history)

vars == <<up, typed, count, counted, complete, mem, disk, saved, called,
          since>>

\* Fragments are numbered from zero.
Fragments(m) == 0 .. Total[m] - 1
AllFragments == UNION {Fragments(m) : m \in Messages}
FragmentSets == [Messages -> SUBSET AllFragments]

Nothing == [m \in Messages |-> {}]
Zero == [m \in Messages |-> 0]
EmptyData == [count |-> Zero, counted |-> Nothing, complete |-> {}]

TypeOK ==
  /\ up \in {"up", "down", "failed"} /\ typed \in BOOLEAN
  /\ \A m \in Messages :
       count[m] \in 0 .. Total[m] /\ saved.count[m] \in 0 .. Total[m]
  /\ complete \subseteq Messages /\ saved.complete \subseteq Messages
  /\ {mem, disk, counted, saved.counted, since} \subseteq FragmentSets
  /\ called \in [Messages -> Nat]

\* A new cache in an empty directory.
Init ==
  /\ up = "up" /\ typed = TRUE
  /\ count = Zero /\ counted = Nothing /\ complete = {}
  /\ saved = EmptyData
  /\ mem = Nothing /\ disk = Nothing
  /\ called = Zero
  /\ since = Nothing

-----------------------------------------------------------------------------

Add(store, m, i) == [store EXCEPT ![m] = @ \cup {i}]

\* store_fragment: memory, and the fragment's own file.
StoreFragment_Mut(m, i) == mem' = Add(mem, m, i) /\ UNCHANGED disk
StoreFragment(m, i) == mem' = Add(mem, m, i) /\ disk' = Add(disk, m, i)

\* The test on the fragments counted so far, this one included.
NowComplete_Mut(m) == count[m] + 1 > Total[m]
NowComplete_Early(m) == count[m] + 2 >= Total[m]
NowComplete(m) == count[m] + 1 = Total[m]

\* The callbacks for the message's type are told of it.
ServiceCallbacks(m) == called' = [called EXCEPT ![m] = @ + 1]

\* ingest, of a fragment of a message that is not complete.  The test for a
\* fragment "we don't have" looks its index up among the keys "fragments",
\* "complete" and "number", so that it never finds it.  content() raises
\* KeyError, and no callback is made, if a fragment is missing.
Ingest(m, i) ==
  /\ up = "up" /\ typed
  /\ m \notin complete
  /\ StoreFragment(m, i)
  /\ count' = [count EXCEPT ![m] = @ + 1] /\ counted' = Add(counted, m, i)
  /\ complete' = IF NowComplete(m) THEN complete \cup {m} ELSE complete
  /\ IF NowComplete(m) /\ mem'[m] = Fragments(m)
       THEN ServiceCallbacks(m) ELSE UNCHANGED called
  /\ since' = Add(since, m, i)
  /\ UNCHANGED <<up, typed, saved>>

\* ingest, once the message is complete: only its number is updated.
IngestComplete_Mut(m, i) ==
  /\ up = "up" /\ typed
  /\ m \in complete
  /\ called' = [called EXCEPT ![m] = 2]
  /\ since' = Add(since, m, i)
  /\ UNCHANGED <<up, typed, count, counted, complete, mem, disk, saved>>

IngestComplete(m, i) ==
  /\ up = "up" /\ typed
  /\ m \in complete
  /\ since' = Add(since, m, i)
  /\ UNCHANGED <<up, typed, count, counted, complete, mem, disk, saved,
                 called>>

\* DataCache.write
Write ==
  /\ up = "up"
  /\ saved' = [count |-> count, counted |-> counted, complete |-> complete]
  /\ UNCHANGED <<up, typed, count, counted, complete, mem, disk, called,
                 since>>

\* DataCache.clean removes the saved dictionary and empties the one in memory,
\* the entries of the message types included; ingest then raises KeyError
\* until the next start.  Fragments stay where they are.
Clean ==
  /\ up = "up"
  /\ typed' = FALSE
  /\ count' = Zero /\ counted' = Nothing /\ complete' = {}
  /\ saved' = EmptyData
  /\ UNCHANGED <<up, mem, disk, called, since>>

Exit ==
  /\ up = "up"
  /\ up' = "down"
  /\ count' = Zero /\ counted' = Nothing /\ complete' = {}
  /\ mem' = Nothing /\ called' = Zero /\ since' = Nothing
  /\ UNCHANGED <<typed, disk, saved>>

\* load_fragments appends every checksum to the path it is working on, so that
\* the second one of a type is looked for below the first and raises.
Loadable ==
  \A m, n \in Messages :
    disk[m] # {} /\ disk[n] # {} /\ TypeOf[m] = TypeOf[n] => m = n

\* service_all_callbacks needs the content of all that was saved as complete.
Servable == \A m \in saved.complete : disk[m] = Fragments(m)

Start ==
  /\ up = "down" /\ Loadable /\ Servable
  /\ up' = "up" /\ typed' = TRUE
  /\ count' = saved.count /\ counted' = saved.counted
  /\ complete' = saved.complete
  /\ mem' = disk
  /\ called' = [m \in Messages |-> IF m \in saved.complete THEN 1 ELSE 0]
  /\ UNCHANGED <<disk, saved, since>>

\* The constructor raises, and every further attempt raises again.
StartFails ==
  /\ up = "down" /\ ~(Loadable /\ Servable)
  /\ up' = "failed"
  /\ UNCHANGED <<typed, count, counted, complete, mem, disk, saved, called,
                 since>>

Next ==
  \/ \E m \in Messages : \E i \in Fragments(m) :
       Ingest(m, i) \/ IngestComplete(m, i)
  \/ Write \/ Clean \/ Exit \/ Start \/ StartFails

Spec == Init /\ [][Next]_vars

-----------------------------------------------------------------------------
(* Properties *)

\* Has a fragment been counted twice?  Nothing in ingest prevents that.
Miscounted(data, m) == data.count[m] # Cardinality(data.counted[m])
Data == [count |-> count, counted |-> counted]

\* A message that is marked complete has all of its fragments, across any
\* number of restarts that lose counts and keep fragments, unless ingest has
\* counted a repeated fragment: what content() returns is the message that was
\* sent.
CompleteMeansAll ==
  up = "up" =>
    \A m \in complete : mem[m] = Fragments(m) \/ Miscounted(Data, m)

\* A process tells its consumers about a message exactly when it is complete
\* and all there, and once, however often its fragments are repeated.
ToldOnce ==
  up = "up" /\ typed =>
    \A m \in Messages :
      called[m] = IF m \in complete /\ mem[m] = Fragments(m) THEN 1 ELSE 0

\* A message all of whose fragments have arrived since the start is complete:
\* the saved count it began with never puts completion out of reach.
NothingForgotten ==
  up = "up" /\ typed =>
    \A m \in Messages : since[m] = Fragments(m) => m \in complete

\* The cache can be constructed again on what it has stored, whenever the
\* process ended, unless two messages of one type are on disk or a message
\* was saved as complete after a fragment of it was counted twice: a fragment
\* is on disk before write() can save that it was counted.
RestartOpens ==
  up = "failed" =>
    \/ ~Loadable
    \/ \E m \in saved.complete : Miscounted(saved, m)
=============================================================================

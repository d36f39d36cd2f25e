-------------------------------- MODULE LWW --------------------------------
(***************************************************************************)
(* The last-writer-wins order of podshare and the step that applies one    *)
(* incoming write to one key of a replica.  Every component that stores or *)
(* ships entries uses these definitions.                                   *)
(*                                                                         *)
(* Node identifiers are naturals: the code compares NodeIDs as strings and *)
(* only their order matters.  Timestamps are naturals: wall-clock instants *)
(* (time.Now().UTC() carries no monotonic reading).                        *)
(***************************************************************************)
EXTENDS Naturals

CONSTANTS Node,          \* NodeIDs, ordered
          Key,           \* the keys of the topic
          Value,         \* the values of type T
          Zero,          \* the zero value of T, carried by tombstones
          Bad,           \* values codec.Marshal refuses (a NaN under JSON)
          NoEntry,       \* the key is not in the map
          UseMerger,     \* the Store was built WithMerger
          Join(_, _)     \* the merger

ASSUME NodeAssumption  == Node \subseteq Nat
ASSUME ValueAssumption == Zero \in Value /\ Bad \subseteq Value
ASSUME MergerAssumption ==
  /\ UseMerger \in BOOLEAN
  /\ \A a, b \in Value : Join(a, b) \in Value

\* One element of Store.data; also the payload of a wireMessage, whose Kind
\* is the tomb field.
Entry == [ts : Nat, origin : Node, seq : Nat, tomb : BOOLEAN, value : Value]

ASSUME NoEntryAssumption == NoEntry \notin Entry

\* The data map, a snapshot, a decoded wireSnapshot.
Map == [Key -> Entry \cup {NoEntry}]

EmptyMap == [k \in Key |-> NoEntry]

\* A broadcast wireMessage.
Msg == [key : Key, entry : Entry]

----------------------------------------------------------------------------

\* Mutant: the tie on origins is left to the sequence number alone.
Newer_NoOrigin(m, e) ==
  /\ ~(e.ts > m.ts)
  /\ ~(e.ts = m.ts /\ e.seq >= m.seq)

\* The three tests of lwwAccept, each of which rejects the incoming entry m.
Newer(m, e) ==
  /\ ~(e.ts > m.ts)
  /\ ~(e.ts = m.ts /\ e.origin > m.origin)
  /\ ~(e.ts = m.ts /\ e.origin = m.origin /\ e.seq >= m.seq)

lwwAccept(cur, m) == cur = NoEntry \/ Newer(m, cur)

Live(e) == e # NoEntry /\ ~e.tomb

\* What a Set or a remote message stores once lwwAccept let it in: the merger
\* sees only a live previous value and a Set.
Merged(cur, m) ==
  IF UseMerger /\ ~m.tomb /\ Live(cur)
  THEN [m EXCEPT !.value = Join(cur.value, m.value)]
  ELSE m

\* mergeSnapshot: the same test, but the merger is not consulted.
Adopt(cur, m) == IF lwwAccept(cur, m) THEN m ELSE cur

\* m is no newer than what cur records (cur holds m or superseded it).
Covers(cur, m) == cur # NoEntry /\ ~Newer(m, cur)

\* The tombstone e is due for collection when the clock reads t.
Expired(e, t, ttl) == e # NoEntry /\ e.tomb /\ e.ts + ttl < t

=============================================================================

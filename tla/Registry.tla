------------------------------ MODULE Registry ------------------------------
(***************************************************************************)
(* The connection registry of internal/domains/relayer/relayer.go: a       *)
(* sync.Map from public keys to connectors and an atomic counter that is    *)
(* kept beside it. OnConnect and OnDisconnect touch the two one after the   *)
(* other, with nothing that makes the pair atomic, so each is two steps.    *)
(* The caller is Server.wsHandler, which runs OnConnect once when a         *)
(* connection is accepted and, through the deferred call of                 *)
(* WSConnector.ReadWriteLoop, OnDisconnect once when its read loop ends.    *)
(***************************************************************************)
EXTENDS Integers, FiniteSets

CONSTANTS PubKeys,  \* 32-byte public keys
          Conns,    \* connectors, one per accepted WebSocket
          KeyOf,    \* the key each connector authenticated with
          None      \* what a lookup of an unknown key returns

ASSUME RegistryAssumption ==
  /\ KeyOf \in [Conns -> PubKeys]
  /\ None \notin Conns
  /\ IsFiniteSet(Conns)
  /\ IsFiniteSet(PubKeys)

VARIABLES connectors, \* Relayer.connectors
          connCount,  \* Relayer.connCount
          life        \* how far each connection is through wsHandler

regVars == <<connectors, connCount, life>>

\* "new": not accepted yet; "adding": OnConnect inserted a new key and has not
\* counted it; "online": OnConnect returned; "removing": OnDisconnect deleted
\* the entry and has not counted that; "gone": OnDisconnect returned.
Lives == {"new", "adding", "online", "removing", "gone"}

RegInit == /\ connectors = [k \in PubKeys |-> None]
           /\ connCount = 0
           /\ life = [c \in Conns |-> "new"]

GetConnectorByKey(k) == connectors[k]

Registered == {k \in PubKeys : GetConnectorByKey(k) # None}
Adding     == {c \in Conns : life[c] = "adding"}
Removing   == {c \in Conns : life[c] = "removing"}

\* A fault of OnConnect: count a reconnect like a new key.
OnConnectAlwaysCounts(c) ==
  /\ life[c] = "new"
  /\ connectors' = [connectors EXCEPT ![KeyOf[c]] = c]
  /\ life' = [life EXCEPT ![c] = "adding"]
  /\ UNCHANGED connCount

\* OnConnect: connectors.Swap(pubKey, c). Only an insertion goes on to count.
OnConnectSwap(c) ==
  /\ life[c] = "new"
  /\ connectors' = [connectors EXCEPT ![KeyOf[c]] = c]
  /\ life' = [life EXCEPT ![c] = IF KeyOf[c] \in Registered THEN "online" ELSE "adding"]
  /\ UNCHANGED connCount

\* OnConnect: connCount.Add(1), when Swap found no earlier entry.
OnConnectAdd(c) ==
  /\ life[c] = "adding"
  /\ connCount' = connCount + 1
  /\ life' = [life EXCEPT ![c] = "online"]
  /\ UNCHANGED connectors

\* Three faults of OnDisconnect that the properties below must notice: Delete in
\* place of CompareAndDelete, a count without a deletion, a tombstone left in
\* place of the entry.
OnDisconnectDeleteAny(c) ==
  /\ life[c] = "online"
  /\ connectors' = [connectors EXCEPT ![KeyOf[c]] = None]
  /\ life' = [life EXCEPT ![c] = "removing"]
  /\ UNCHANGED connCount

OnDisconnectCountOnly(c) ==
  /\ life[c] = "online"
  /\ life' = [life EXCEPT ![c] = IF GetConnectorByKey(KeyOf[c]) = c THEN "removing" ELSE "gone"]
  /\ UNCHANGED <<connectors, connCount>>

OnDisconnectTombstone(c) ==
  /\ life[c] = "online" /\ GetConnectorByKey(KeyOf[c]) = c
  /\ connectors' = [connectors EXCEPT ![KeyOf[c]] = <<c>>]
  /\ life' = [life EXCEPT ![c] = "removing"]
  /\ UNCHANGED connCount

\* OnDisconnect: connectors.CompareAndDelete(pubKey, c).
OnDisconnectDelete(c) ==
  /\ life[c] = "online"
  /\ IF GetConnectorByKey(KeyOf[c]) = c
     THEN /\ connectors' = [connectors EXCEPT ![KeyOf[c]] = None]
          /\ life' = [life EXCEPT ![c] = "removing"]
     ELSE /\ life' = [life EXCEPT ![c] = "gone"]
          /\ UNCHANGED connectors
  /\ UNCHANGED connCount

\* OnDisconnect: connCount.Add(-1), when CompareAndDelete deleted.
OnDisconnectAdd(c) ==
  /\ life[c] = "removing"
  /\ connCount' = connCount - 1
  /\ life' = [life EXCEPT ![c] = "gone"]
  /\ UNCHANGED connectors

RegNext == \E c \in Conns : \/ OnConnectSwap(c)
                            \/ OnConnectAdd(c)
                            \/ OnDisconnectDelete(c)
                            \/ OnDisconnectAdd(c)

RegSpec == RegInit /\ [][RegNext]_regVars

-----------------------------------------------------------------------------
\* Type invariant.
RegTypeOK == /\ connectors \in [PubKeys -> Conns \cup {None}]
             /\ connCount \in Int
             /\ life \in [Conns -> Lives]

\* A key resolves to a connector that authenticated with that key and whose
\* OnDisconnect has not run: HandleMessage never resolves a target to someone
\* else's connection or to one that already left.
NoStaleEntry ==
  \A k \in Registered : LET c == GetConnectorByKey(k) IN
    KeyOf[c] = k /\ life[c] \in {"adding", "online"}

\* The counter and the map drift apart only by the operations between their
\* two halves: insertions not counted yet and deletions not counted yet. A
\* reconnect under a registered key and the late OnDisconnect of the connector
\* it replaced leave no trace in the counter, in whatever order they run.
CountTracksRegistry ==
  connCount + Cardinality(Adding) = Cardinality(Registered) + Cardinality(Removing)

\* OnDisconnect never evicts the connector that replaced its own: an entry is
\* deleted only by the disconnect of the very connector stored in it.
OnlyOwnerDeletes ==
  [][\A k \in PubKeys :
       k \in Registered /\ connectors'[k] = None =>
         LET c == GetConnectorByKey(k) IN life[c] = "online" /\ life'[c] = "removing"]_regVars

\* The registry implements the directory: seen through the counts still to be
\* made, each Swap and each CompareAndDelete changes map and count at once.
Dir == INSTANCE Directory WITH
         entries <- connectors,
         count   <- connCount + Cardinality(Adding) - Cardinality(Removing),
         phase   <- [c \in Conns |-> CASE life[c] = "new" -> "out"
                                       [] life[c] \in {"adding", "online"} -> "in"
                                       [] OTHER -> "left"]
ImplementsDirectory == Dir!DirSpec
=============================================================================

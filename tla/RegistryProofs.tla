--------------------------- MODULE RegistryProofs ---------------------------
(***************************************************************************)
(* Theorems about Registry, for every finite set of connections and keys.  *)
(* RegTypeOK /\ NoStaleEntry is inductive as it stands; the counting        *)
(* equation is preserved given those two, because each half of OnConnect    *)
(* and OnDisconnect moves exactly one element in or out of two of the four  *)
(* quantities it relates. Without a takeover of its key a connection that   *)
(* has connected is found under it.                                         *)
(***************************************************************************)
EXTENDS Registry, FiniteSetTheorems, TLAPS

USE RegistryAssumption

\* The initial registry is well typed and has no entry.
LEMMA RegInitOK == RegInit => RegTypeOK /\ NoStaleEntry
  BY DEF RegInit, RegTypeOK, NoStaleEntry, Lives, Registered, GetConnectorByKey

\* Each half of OnConnect and OnDisconnect preserves the type invariant.
LEMMA RegTypeStep == RegTypeOK /\ [RegNext]_regVars => RegTypeOK'
<1> SUFFICES ASSUME RegTypeOK, [RegNext]_regVars PROVE RegTypeOK'
  OBVIOUS
<1>1. ASSUME NEW c \in Conns, OnConnectSwap(c) PROVE RegTypeOK'
  BY <1>1 DEF OnConnectSwap, RegTypeOK, Lives
<1>2. ASSUME NEW c \in Conns, OnConnectAdd(c) PROVE RegTypeOK'
  BY <1>2 DEF OnConnectAdd, RegTypeOK, Lives
<1>3. ASSUME NEW c \in Conns, OnDisconnectDelete(c) PROVE RegTypeOK'
  BY <1>3 DEF OnDisconnectDelete, RegTypeOK, Lives
<1>4. ASSUME NEW c \in Conns, OnDisconnectAdd(c) PROVE RegTypeOK'
  BY <1>4 DEF OnDisconnectAdd, RegTypeOK, Lives
<1>5. CASE UNCHANGED regVars
  BY <1>5 DEF regVars, RegTypeOK
<1> QED
  BY <1>1, <1>2, <1>3, <1>4, <1>5 DEF RegNext

\* No step leaves an entry behind for a connector that is leaving.
LEMMA NoStaleStep == RegTypeOK /\ NoStaleEntry /\ [RegNext]_regVars => NoStaleEntry'
<1> SUFFICES ASSUME RegTypeOK, NoStaleEntry, [RegNext]_regVars PROVE NoStaleEntry'
  OBVIOUS
<1> USE DEF NoStaleEntry, Registered, GetConnectorByKey
<1>1. ASSUME NEW c \in Conns, OnConnectSwap(c) PROVE NoStaleEntry'
  BY <1>1 DEF OnConnectSwap, RegTypeOK
<1>2. ASSUME NEW c \in Conns, OnConnectAdd(c) PROVE NoStaleEntry'
  BY <1>2 DEF OnConnectAdd, RegTypeOK
<1>3. ASSUME NEW c \in Conns, OnDisconnectDelete(c) PROVE NoStaleEntry'
  BY <1>3 DEF OnDisconnectDelete, RegTypeOK
<1>4. ASSUME NEW c \in Conns, OnDisconnectAdd(c) PROVE NoStaleEntry'
  BY <1>4 DEF OnDisconnectAdd, RegTypeOK
<1>5. CASE UNCHANGED regVars
  BY <1>5 DEF regVars
<1> QED
  BY <1>1, <1>2, <1>3, <1>4, <1>5 DEF RegNext

\* A finite set gains one element or loses one.
LEMMA CardinalityPlusOne ==
  ASSUME NEW S, IsFiniteSet(S), NEW x, x \notin S
  PROVE  Cardinality(S \cup {x}) = Cardinality(S) + 1
  BY FS_AddElement

\* Removing an element makes a finite set smaller by one.
LEMMA CardinalityMinusOne ==
  ASSUME NEW S, IsFiniteSet(S), NEW x, x \in S
  PROVE  Cardinality(S \ {x}) = Cardinality(S) - 1
  BY FS_RemoveElement

\* The three sets that are counted are finite.
LEMMA CountedSetsFinite ==
  /\ IsFiniteSet(Registered) /\ Cardinality(Registered) \in Nat
  /\ IsFiniteSet(Adding)     /\ Cardinality(Adding) \in Nat
  /\ IsFiniteSet(Removing)   /\ Cardinality(Removing) \in Nat
<1>1. /\ Registered \subseteq PubKeys
      /\ Adding \subseteq Conns
      /\ Removing \subseteq Conns
  BY DEF Registered, Adding, Removing
<1>2. IsFiniteSet(Registered) /\ IsFiniteSet(Adding) /\ IsFiniteSet(Removing)
  BY <1>1, FS_Subset
<1> QED
  BY <1>2, FS_CardinalityType

\* The number of keys present in the directory that Registry implements.
DirCount == connCount + Cardinality(Adding) - Cardinality(Removing)

\* What each half of OnConnect and OnDisconnect does to the counted sets, and
\* so to the directory's count: only Swap and CompareAndDelete change it.
LEMMA SwapCounts ==
  ASSUME RegTypeOK, NEW c \in Conns, OnConnectSwap(c)
  PROVE  /\ Registered' = Registered \cup {KeyOf[c]}
         /\ DirCount' - DirCount = Cardinality(Registered') - Cardinality(Registered)
         /\ DirCount' = IF KeyOf[c] \in Registered THEN DirCount ELSE DirCount + 1
<1>1. Registered' = Registered \cup {KeyOf[c]}
  BY DEF OnConnectSwap, RegTypeOK, Registered, GetConnectorByKey
<1>2. Removing' = Removing
  BY DEF OnConnectSwap, RegTypeOK, Removing
<1>3. CASE KeyOf[c] \in Registered
  <2>1. Adding' = Adding
    BY <1>3 DEF OnConnectSwap, RegTypeOK, Adding
  <2>2. Registered' = Registered
    BY <1>1, <1>3
  <2>3. DirCount' = DirCount /\ DirCount \in Int
    BY <1>2, <2>1, CountedSetsFinite DEF DirCount, OnConnectSwap, RegTypeOK
  <2> QED
    BY <1>1, <1>3, <2>2, <2>3, CountedSetsFinite
<1>4. CASE KeyOf[c] \notin Registered
  <2>1. Adding' = Adding \cup {c} /\ c \notin Adding
    BY <1>4 DEF OnConnectSwap, RegTypeOK, Adding
  <2>2. Cardinality(Adding') = Cardinality(Adding) + 1
    BY <2>1, CardinalityPlusOne, CountedSetsFinite
  <2>3. Cardinality(Registered') = Cardinality(Registered) + 1
    BY <1>1, <1>4, CardinalityPlusOne, CountedSetsFinite
  <2>4. DirCount' = DirCount + 1 /\ DirCount \in Int
    BY <1>2, <2>2, CountedSetsFinite DEF DirCount, OnConnectSwap, RegTypeOK
  <2> QED
    BY <1>1, <1>4, <2>3, <2>4, CountedSetsFinite
<1> QED
  BY <1>3, <1>4

\* The counting half of OnConnect keeps the counting equation.
LEMMA ConnectAddCounts ==
  ASSUME RegTypeOK, NEW c \in Conns, OnConnectAdd(c)
  PROVE  Registered' = Registered /\ DirCount' = DirCount
<1>1. Registered' = Registered /\ Removing' = Removing
  BY DEF OnConnectAdd, RegTypeOK, Registered, GetConnectorByKey, Removing
<1>2. Adding' = Adding \ {c} /\ c \in Adding
  BY DEF OnConnectAdd, RegTypeOK, Adding
<1>3. Cardinality(Adding') = Cardinality(Adding) - 1
  BY <1>2, CardinalityMinusOne, CountedSetsFinite
<1> QED
  BY <1>1, <1>3, CountedSetsFinite DEF DirCount, OnConnectAdd, RegTypeOK

\* The deleting half of OnDisconnect keeps it.
LEMMA DeleteCounts ==
  ASSUME RegTypeOK, NEW c \in Conns, OnDisconnectDelete(c)
  PROVE  /\ Registered' = IF connectors[KeyOf[c]] = c THEN Registered \ {KeyOf[c]} ELSE Registered
         /\ DirCount' - DirCount = Cardinality(Registered') - Cardinality(Registered)
         /\ DirCount' = IF connectors[KeyOf[c]] = c THEN DirCount - 1 ELSE DirCount
<1>1. Registered' = IF connectors[KeyOf[c]] = c THEN Registered \ {KeyOf[c]} ELSE Registered
  BY DEF OnDisconnectDelete, RegTypeOK, Registered, GetConnectorByKey
<1>2. Adding' = Adding
  BY DEF OnDisconnectDelete, RegTypeOK, Adding
<1>3. CASE connectors[KeyOf[c]] = c
  <2>1. Removing' = Removing \cup {c} /\ c \notin Removing
    BY <1>3 DEF OnDisconnectDelete, RegTypeOK, Removing, GetConnectorByKey
  <2>2. Cardinality(Removing') = Cardinality(Removing) + 1
    BY <2>1, CardinalityPlusOne, CountedSetsFinite
  <2>3. KeyOf[c] \in Registered
    BY <1>3 DEF Registered, GetConnectorByKey
  <2>4. Cardinality(Registered') = Cardinality(Registered) - 1
    BY <1>1, <1>3, <2>3, CardinalityMinusOne, CountedSetsFinite
  <2>5. DirCount' = DirCount - 1 /\ DirCount \in Int
    BY <1>2, <2>2, CountedSetsFinite DEF DirCount, OnDisconnectDelete, RegTypeOK
  <2> QED
    BY <1>1, <1>3, <2>4, <2>5, CountedSetsFinite
<1>4. CASE connectors[KeyOf[c]] # c
  <2>1. Removing' = Removing /\ Registered' = Registered
    BY <1>1, <1>4 DEF OnDisconnectDelete, RegTypeOK, Removing, GetConnectorByKey
  <2>2. DirCount' = DirCount /\ DirCount \in Int
    BY <1>2, <2>1, CountedSetsFinite DEF DirCount, OnDisconnectDelete, RegTypeOK
  <2> QED
    BY <1>1, <1>4, <2>1, <2>2, CountedSetsFinite
<1> QED
  BY <1>3, <1>4

\* The counting half of OnDisconnect keeps it.
LEMMA DisconnectAddCounts ==
  ASSUME RegTypeOK, NEW c \in Conns, OnDisconnectAdd(c)
  PROVE  Registered' = Registered /\ DirCount' = DirCount
<1>1. Registered' = Registered /\ Adding' = Adding
  BY DEF OnDisconnectAdd, RegTypeOK, Registered, GetConnectorByKey, Adding
<1>2. Removing' = Removing \ {c} /\ c \in Removing
  BY DEF OnDisconnectAdd, RegTypeOK, Removing
<1>3. Cardinality(Removing') = Cardinality(Removing) - 1
  BY <1>2, CardinalityMinusOne, CountedSetsFinite
<1> QED
  BY <1>1, <1>3, CountedSetsFinite DEF DirCount, OnDisconnectAdd, RegTypeOK

\* The counting equation, and its preservation by every step.
LEMMA CountInit == RegInit => CountTracksRegistry
<1> SUFFICES ASSUME RegInit PROVE CountTracksRegistry
  OBVIOUS
<1>1. Registered = {} /\ Adding = {} /\ Removing = {}
  BY DEF RegInit, Registered, Adding, Removing, GetConnectorByKey
<1> QED
  BY <1>1, FS_EmptySet DEF CountTracksRegistry, RegInit

\* Every step of the registry keeps it.
LEMMA CountStep ==
  RegTypeOK /\ CountTracksRegistry /\ [RegNext]_regVars => CountTracksRegistry'
<1> SUFFICES ASSUME RegTypeOK, CountTracksRegistry, [RegNext]_regVars
             PROVE  CountTracksRegistry'
  OBVIOUS
<1>0. connCount \in Int /\ connCount' \in Int
  BY RegTypeStep DEF RegTypeOK
<1>a. /\ Cardinality(Registered') \in Nat
      /\ Cardinality(Adding') \in Nat
      /\ Cardinality(Removing') \in Nat
  <2>1. /\ Registered' \subseteq PubKeys
        /\ Adding' \subseteq Conns
        /\ Removing' \subseteq Conns
    BY DEF Registered, Adding, Removing
  <2> QED
    BY <2>1, FS_Subset, FS_CardinalityType
<1>b. DirCount' - DirCount = Cardinality(Registered') - Cardinality(Registered)
      => CountTracksRegistry'
  BY <1>0, <1>a, CountedSetsFinite DEF CountTracksRegistry, DirCount
<1>c. DirCount \in Int
  BY <1>0, CountedSetsFinite DEF DirCount
<1>1. ASSUME NEW c \in Conns, OnConnectSwap(c) PROVE CountTracksRegistry'
  BY <1>1, <1>b, SwapCounts
<1>2. ASSUME NEW c \in Conns, OnConnectAdd(c) PROVE CountTracksRegistry'
  BY <1>2, <1>b, <1>c, ConnectAddCounts, CountedSetsFinite
<1>3. ASSUME NEW c \in Conns, OnDisconnectDelete(c) PROVE CountTracksRegistry'
  BY <1>3, <1>b, DeleteCounts
<1>4. ASSUME NEW c \in Conns, OnDisconnectAdd(c) PROVE CountTracksRegistry'
  BY <1>4, <1>b, <1>c, DisconnectAddCounts, CountedSetsFinite
<1>5. CASE UNCHANGED regVars
  BY <1>5 DEF regVars, CountTracksRegistry, Registered, Adding, Removing, GetConnectorByKey
<1> QED
  BY <1>1, <1>2, <1>3, <1>4, <1>5 DEF RegNext

-----------------------------------------------------------------------------
\* The registry is well typed in every reachable state.
THEOREM RegTypeCorrect == RegSpec => []RegTypeOK
  BY RegInitOK, RegTypeStep, PTL DEF RegSpec

\* A key always resolves to its own connector, one that has not left.
THEOREM RegistryNeverStale == RegSpec => []NoStaleEntry
<1>1. RegTypeOK /\ NoStaleEntry /\ [RegNext]_regVars => (RegTypeOK /\ NoStaleEntry)'
  BY RegTypeStep, NoStaleStep
<1> QED
  BY RegInitOK, <1>1, PTL DEF RegSpec

\* The counter is off by exactly the counts still to be made.
THEOREM CountIsExact == RegSpec => []CountTracksRegistry
<1>1. RegTypeOK /\ CountTracksRegistry /\ [RegNext]_regVars
        => (RegTypeOK /\ CountTracksRegistry)'
  BY RegTypeStep, CountStep
<1> QED
  BY RegInitOK, CountInit, <1>1, PTL DEF RegSpec

\* An entry is deleted only by the disconnect of the connector stored in it.
THEOREM NoEvictionOfSuccessor == RegSpec => OnlyOwnerDeletes
<1> DEFINE Evict == \A k \in PubKeys :
              k \in Registered /\ connectors'[k] = None =>
                LET c == GetConnectorByKey(k) IN life[c] = "online" /\ life'[c] = "removing"
<1>1. RegTypeOK /\ NoStaleEntry /\ [RegNext]_regVars => [Evict]_regVars
  <2> SUFFICES ASSUME RegTypeOK, NoStaleEntry, RegNext, NEW k \in PubKeys,
                      k \in Registered, connectors'[k] = None
               PROVE  LET c == GetConnectorByKey(k) IN life[c] = "online" /\ life'[c] = "removing"
    OBVIOUS
  <2> USE DEF GetConnectorByKey, Registered
  <2>1. ASSUME NEW c \in Conns, OnConnectSwap(c) PROVE FALSE
    BY <2>1 DEF OnConnectSwap, RegTypeOK
  <2>2. ASSUME NEW c \in Conns, OnConnectAdd(c) PROVE FALSE
    BY <2>2 DEF OnConnectAdd
  <2>3. ASSUME NEW c \in Conns, OnDisconnectAdd(c) PROVE FALSE
    BY <2>3 DEF OnDisconnectAdd
  <2>4. ASSUME NEW c \in Conns, OnDisconnectDelete(c)
        PROVE  connectors[k] = c /\ life[c] = "online" /\ life'[c] = "removing"
    BY <2>4 DEF OnDisconnectDelete, RegTypeOK
  <2> QED
    BY <2>1, <2>2, <2>3, <2>4 DEF RegNext
<1> QED
  BY <1>1, RegTypeCorrect, RegistryNeverStale, PTL DEF RegSpec, OnlyOwnerDeletes

\* A connector that has connected and not yet begun to disconnect is what its key
\* resolves to, unless another connector of that key has connected, too.
Sole(c)       == \A d \in Conns \ {c} : KeyOf[d] = KeyOf[c] => life[d] = "new"
SoleReachable == \A c \in Conns : life[c] \in {"adding", "online"} /\ Sole(c) => connectors[KeyOf[c]] = c

\* While no two connectors of a key overlap, a connected client is registered:
\* only a takeover, and the end of the connector that took over, part the two.
THEOREM SoleIsRegistered == RegSpec => []SoleReachable
<1>1. RegInit => SoleReachable
  BY DEF RegInit, SoleReachable
<1>2. RegTypeOK /\ SoleReachable /\ [RegNext]_regVars => SoleReachable'
  <2> SUFFICES ASSUME RegTypeOK, SoleReachable, [RegNext]_regVars, NEW c \in Conns,
                      life'[c] \in {"adding", "online"}, Sole(c)'
               PROVE  connectors'[KeyOf[c]] = c
    BY DEF SoleReachable
  <2> USE DEF RegTypeOK, SoleReachable, Sole, Lives
  <2>1. ASSUME NEW d \in Conns, OnConnectSwap(d) PROVE connectors'[KeyOf[c]] = c
    <3>1. CASE d = c
      BY <2>1, <3>1 DEF OnConnectSwap
    <3>2. CASE d # c
      <4>1. life'[d] # "new" /\ life'[c] = life[c] /\ KeyOf[d] # KeyOf[c]
        BY <2>1, <3>2 DEF OnConnectSwap
      <4>2. \A e \in Conns \ {c} : KeyOf[e] = KeyOf[c] => life[e] = "new"
        BY <2>1, <4>1 DEF OnConnectSwap
      <4> QED
        BY <2>1, <4>1, <4>2 DEF OnConnectSwap
    <3> QED
      BY <3>1, <3>2
  <2>2. ASSUME NEW d \in Conns, OnConnectAdd(d) \/ OnDisconnectAdd(d) PROVE connectors'[KeyOf[c]] = c
    <3>1. connectors' = connectors /\ (life'[c] = life[c] \/ life[c] = "adding")
      BY <2>2 DEF OnConnectAdd, OnDisconnectAdd
    <3>2. \A e \in Conns \ {c} : life'[e] = "new" => life[e] = "new"
      BY <2>2 DEF OnConnectAdd, OnDisconnectAdd
    <3> QED
      BY <3>1, <3>2
  <2>3. ASSUME NEW d \in Conns, OnDisconnectDelete(d) PROVE connectors'[KeyOf[c]] = c
    <3>1. d # c /\ life'[c] = life[c]
      BY <2>3 DEF OnDisconnectDelete
    <3>2. \A e \in Conns \ {c} : life'[e] = "new" => life[e] = "new"
      BY <2>3 DEF OnDisconnectDelete
    <3>3. connectors[KeyOf[c]] = c
      BY <3>1, <3>2
    <3> QED
      BY <2>3, <3>1, <3>3 DEF OnDisconnectDelete, GetConnectorByKey
  <2>4. CASE UNCHANGED regVars
    BY <2>4 DEF regVars
  <2> QED
    BY <2>1, <2>2, <2>3, <2>4 DEF RegNext
<1> QED
  BY <1>1, <1>2, RegTypeCorrect, PTL DEF RegSpec

-----------------------------------------------------------------------------
\* The phase of the directory that a connection's life stands for.
PhaseOf == [c \in Conns |-> CASE life[c] = "new" -> "out"
                              [] life[c] \in {"adding", "online"} -> "in"
                              [] OTHER -> "left"]

\* Swap is the directory's Join, CompareAndDelete its Leave; the two additions
\* to the counter are invisible.
LEMMA SwapIsJoin ==
  ASSUME RegTypeOK, NEW c \in Conns, OnConnectSwap(c)
  PROVE  Dir!Join(c)
<1>1. PhaseOf[c] = "out" /\ PhaseOf' = [PhaseOf EXCEPT ![c] = "in"]
  BY DEF PhaseOf, OnConnectSwap, RegTypeOK
<1>2. DirCount' = IF connectors[KeyOf[c]] = None THEN DirCount + 1 ELSE DirCount
  BY SwapCounts DEF Registered, GetConnectorByKey
<1>3. connectors' = [connectors EXCEPT ![KeyOf[c]] = c]
  BY DEF OnConnectSwap
<1> QED
  BY <1>1, <1>2, <1>3 DEF Dir!Join, PhaseOf, DirCount

\* The deleting half of OnDisconnect is a leave of the directory, or nothing.
LEMMA DeleteIsLeave ==
  ASSUME RegTypeOK, NEW c \in Conns, OnDisconnectDelete(c)
  PROVE  Dir!Leave(c)
<1>1. PhaseOf[c] = "in" /\ PhaseOf' = [PhaseOf EXCEPT ![c] = "left"]
  BY DEF PhaseOf, OnDisconnectDelete, RegTypeOK
<1>2. DirCount' = IF connectors[KeyOf[c]] = c THEN DirCount - 1 ELSE DirCount
  BY DeleteCounts
<1>3. IF connectors[KeyOf[c]] = c
      THEN connectors' = [connectors EXCEPT ![KeyOf[c]] = None]
      ELSE connectors' = connectors
  BY DEF OnDisconnectDelete, GetConnectorByKey
<1> QED
  BY <1>1, <1>2, <1>3 DEF Dir!Leave, PhaseOf, DirCount

\* The counting halves are not seen in the directory.
LEMMA AddsAreInvisible ==
  ASSUME RegTypeOK, NEW c \in Conns, OnConnectAdd(c) \/ OnDisconnectAdd(c)
  PROVE  UNCHANGED Dir!dirVars
<1>1. DirCount' = DirCount
  BY ConnectAddCounts, DisconnectAddCounts
<1>2. PhaseOf' = PhaseOf
  BY DEF PhaseOf, OnConnectAdd, OnDisconnectAdd, RegTypeOK
<1>3. connectors' = connectors
  BY DEF OnConnectAdd, OnDisconnectAdd
<1> QED
  BY <1>1, <1>2, <1>3 DEF Dir!dirVars, PhaseOf, DirCount

\* Map and counter together behave as one atomic directory.
THEOREM RegistryImplementsDirectory == RegSpec => ImplementsDirectory
<1>1. RegInit => Dir!DirInit
  <2> SUFFICES ASSUME RegInit PROVE Dir!DirInit
    OBVIOUS
  <2>1. Adding = {} /\ Removing = {}
    BY DEF RegInit, Adding, Removing
  <2>2. DirCount = 0
    BY <2>1, FS_EmptySet DEF RegInit, DirCount
  <2> QED
    BY <2>2 DEF RegInit, Dir!DirInit, DirCount
<1>2. RegTypeOK /\ [RegNext]_regVars => [Dir!DirNext]_(Dir!dirVars)
  <2> SUFFICES ASSUME RegTypeOK, [RegNext]_regVars PROVE [Dir!DirNext]_(Dir!dirVars)
    OBVIOUS
  <2>1. ASSUME NEW c \in Conns, OnConnectSwap(c) PROVE Dir!DirNext
    BY <2>1, SwapIsJoin DEF Dir!DirNext
  <2>2. ASSUME NEW c \in Conns, OnDisconnectDelete(c) PROVE Dir!DirNext
    BY <2>2, DeleteIsLeave DEF Dir!DirNext
  <2>3. ASSUME NEW c \in Conns, OnConnectAdd(c) \/ OnDisconnectAdd(c)
        PROVE  UNCHANGED Dir!dirVars
    BY <2>3, AddsAreInvisible
  <2>4. CASE UNCHANGED regVars
    BY <2>4 DEF regVars, Dir!dirVars, Adding, Removing
  <2> QED
    BY <2>1, <2>2, <2>3, <2>4 DEF RegNext
<1> QED
  BY <1>1, <1>2, RegTypeCorrect, PTL DEF RegSpec, ImplementsDirectory, Dir!DirSpec
=============================================================================

------------------------ MODULE ConnectionPoolProofs ------------------------
(***************************************************************************)
(* Proofs about ConnectionPool for any number of clients, connections and  *)
(* any limit of the pool.                                                  *)
(***************************************************************************)
EXTENDS ConnectionPool, FiniteSetTheorems, SequenceTheorems, TLAPS

\* A client owns a connection exactly while its AdbcPooledConnection has one.
LeaseInv ==
    \A c \in Client : lease[c] = None <=> state[c] \in {"none", "returning"}

\* The inductive invariant: each part needs the others.  The count makes the
\* test of the limit a test of the lent connections, exclusive leases and
\* ownership depend on each other, and a pool that is destroyed must not have
\* lent connections.
IndInv ==
    /\ TypeOK
    /\ LeaseInv
    /\ ExclusiveLease
    /\ OpenMeansOwned
    /\ ActiveCountsLeases
    /\ PoolBounded
    /\ UnreferencedPoolIsEmpty

-----------------------------------------------------------------------------
\* Facts about the sequence of idle connections and the set of lent ones.

\* Taking the last idle connection leaves the others in their places.
LEMMA LastTaken ==
    ASSUME TypeOK, connections # <<>>
    PROVE  /\ Len(connections) \in Nat \ {0}
           /\ FrontTaken \in Seq(Connection)
           /\ Len(FrontTaken) = Len(connections) - 1
           /\ \A i \in 1..Len(FrontTaken) : FrontTaken[i] = connections[i]
           /\ connections[Len(connections)] \in Connection
  <1>1. connections \in Seq(Connection)
    BY DEF TypeOK
  <1>2. Len(connections) \in Nat \ {0}
    BY <1>1
  <1>3. connections[Len(connections)] \in Connection
    BY <1>1, <1>2
  <1>4. Len(connections) - 1 \in Nat
    BY <1>2
  <1>5. \A i \in 1..(Len(connections) - 1) : connections[i] \in Connection
    BY <1>1, <1>2
  <1>6. /\ FrontTaken \in Seq(Connection)
        /\ Len(FrontTaken) =
             IF 1 <= Len(connections) - 1 THEN Len(connections) - 1 - 1 + 1 ELSE 0
        /\ \A i \in 1..(Len(connections) - 1 - 1 + 1) :
              FrontTaken[i] = connections[1 + i - 1]
    BY <1>4, <1>5, SubSeqProperties DEF FrontTaken
  <1>7. Len(FrontTaken) = Len(connections) - 1
    <2>1. CASE Len(connections) = 1
      BY <1>6, <2>1
    <2>2. CASE Len(connections) # 1
      <3>1. 1 <= Len(connections) - 1
        <4>1. \A n \in Nat \ {0} : n # 1 => 1 <= n - 1
          OBVIOUS
        <4> QED
          BY <1>2, <2>2, <4>1, Zenon
      <3>2. Len(connections) - 1 - 1 + 1 = Len(connections) - 1
        BY <1>2
      <3> QED
        BY <1>6, <3>1, <3>2
    <2> QED
      BY <2>1, <2>2
  <1>8. \A i \in 1..Len(FrontTaken) : FrontTaken[i] = connections[i]
    BY <1>2, <1>6, <1>7
  <1> QED
    BY <1>2, <1>3, <1>6, <1>7, <1>8

\* The lent connections are finitely many.
LEMMA PooledFinite ==
    /\ IsFiniteSet(Pooled)
    /\ Cardinality(Pooled) \in Nat
  <1>1. IsFiniteSet(Client) /\ Pooled \subseteq Client
    BY PoolAssumption DEF PoolAssumption, Pooled
  <1> QED
    BY <1>1, FS_Subset, FS_CardinalityType

\* One more client with a pooled connection.
LEMMA PooledGrows ==
    ASSUME TypeOK, NEW c \in Client, state[c] # "pooled",
           state' = [state EXCEPT ![c] = "pooled"]
    PROVE  Cardinality(Pooled)' = Cardinality(Pooled) + 1
  <1>1. Pooled' = Pooled \cup {c} /\ c \notin Pooled
    BY DEF Pooled, TypeOK
  <1> QED
    BY <1>1, PooledFinite, FS_AddElement

\* One client less with a pooled connection.
LEMMA PooledShrinks ==
    ASSUME TypeOK, NEW c \in Client, NEW next, state[c] = "pooled",
           next # "pooled", state' = [state EXCEPT ![c] = next]
    PROVE  /\ Cardinality(Pooled)' = Cardinality(Pooled) - 1
           /\ Cardinality(Pooled) \in Nat \ {0}
  <1>1. Pooled' = Pooled \ {c} /\ c \in Pooled
    BY DEF Pooled, TypeOK
  <1>2. Cardinality(Pooled)' = Cardinality(Pooled) - 1
    BY <1>1, PooledFinite, FS_RemoveElement
  <1>3. Cardinality(Pooled) # 0
    BY <1>1, PooledFinite, FS_EmptySet
  <1> QED
    BY <1>2, <1>3, PooledFinite

\* A step that neither lends nor takes back a connection of the pool.
LEMMA PooledSame ==
    ASSUME TypeOK, NEW c \in Client, NEW next, state[c] # "pooled",
           next # "pooled", state' = [state EXCEPT ![c] = next]
    PROVE  Pooled' = Pooled
  BY DEF Pooled, TypeOK

\* What the two list operations do to the set of idle connections.
LEMMA IdleAfterTake ==
    ASSUME TypeOK, ExclusiveLease, connections # <<>>,
           connections' = FrontTaken
    PROVE  /\ Idle' = Idle \ {connections[Len(connections)]}
           /\ connections[Len(connections)] \in Idle
           /\ \A i, j \in 1..Len(connections') :
                 connections'[i] = connections'[j] => i = j
  <1>1. /\ Len(connections) \in Nat \ {0}
        /\ Len(connections') = Len(connections) - 1
        /\ \A i \in 1..Len(connections') : connections'[i] = connections[i]
    BY LastTaken
  <1>2. \A i, j \in 1..Len(connections) : connections[i] = connections[j] => i = j
    BY DEF ExclusiveLease
  <1>3. connections[Len(connections)] \in Idle
    BY <1>1 DEF Idle
  <1>4. \A i \in 1..Len(connections') :
          i \in 1..Len(connections) /\ i # Len(connections)
    BY <1>1
  <1>5. \A i \in 1..Len(connections) :
          i = Len(connections) \/ i \in 1..Len(connections')
    BY <1>1
  <1>6. Idle' = Idle \ {connections[Len(connections)]}
    <2>1. ASSUME NEW x \in Idle' PROVE x \in Idle \ {connections[Len(connections)]}
      <3>1. PICK i \in 1..Len(connections') : x = connections'[i]
        BY <2>1 DEF Idle
      <3>2. x = connections[i] /\ i \in 1..Len(connections) /\ i # Len(connections)
        BY <1>1, <1>4, <3>1
      <3>3. Len(connections) \in 1..Len(connections)
        BY <1>1
      <3> QED
        BY <1>2, <3>2, <3>3 DEF Idle
    <2>2. ASSUME NEW x \in Idle \ {connections[Len(connections)]} PROVE x \in Idle'
      <3>1. PICK i \in 1..Len(connections) : x = connections[i]
        BY <2>2 DEF Idle
      <3>2. i \in 1..Len(connections')
        BY <1>5, <2>2, <3>1
      <3> QED
        BY <1>1, <3>1, <3>2 DEF Idle
    <2> QED
      BY <2>1, <2>2
  <1>7. \A i, j \in 1..Len(connections') : connections'[i] = connections'[j] => i = j
    BY <1>1, <1>2, <1>4
  <1> QED
    BY <1>3, <1>6, <1>7

\* A returned connection that was not idle is idle once.
LEMMA IdleAfterReturn ==
    ASSUME TypeOK, ExclusiveLease, NEW x \in Connection, x \notin Idle,
           connections' = Append(connections, x)
    PROVE  /\ Idle' = Idle \cup {x}
           /\ \A i, j \in 1..Len(connections') :
                 connections'[i] = connections'[j] => i = j
  <1>0. connections \in Seq(Connection) /\ Len(connections) \in Nat
    BY DEF TypeOK
  <1>1. /\ Len(connections') = Len(connections) + 1
        /\ connections'[Len(connections) + 1] = x
        /\ \A i \in 1..Len(connections) : connections'[i] = connections[i]
    BY <1>0
  <1>2. \A i \in 1..Len(connections') :
          i \in 1..Len(connections) \/ i = Len(connections) + 1
    BY <1>0, <1>1
  <1>3. /\ \A i \in 1..Len(connections) : i \in 1..Len(connections')
        /\ Len(connections) + 1 \in 1..Len(connections')
    BY <1>0, <1>1
  <1>4. \A i \in 1..Len(connections) : connections[i] # x
    BY DEF Idle
  <1>5. Idle' = Idle \cup {x}
    <2>1. ASSUME NEW y \in Idle' PROVE y \in Idle \cup {x}
      BY <1>1, <1>2, <2>1 DEF Idle
    <2>2. ASSUME NEW y \in Idle \cup {x} PROVE y \in Idle'
      BY <1>1, <1>3, <2>2 DEF Idle
    <2> QED
      BY <2>1, <2>2
  <1>6. \A i, j \in 1..Len(connections') : connections'[i] = connections'[j] => i = j
    BY <1>1, <1>2, <1>4 DEF ExclusiveLease
  <1> QED
    BY <1>5, <1>6

-----------------------------------------------------------------------------
\* Losing a reference keeps the idle connections or closes them all.
LEMMA DropKeepsOrCloses ==
    ASSUME NEW referenced, DropReference(referenced)
    PROVE  \/ connections' = connections /\ open' = open /\ referenced
           \/ connections' = <<>> /\ open' = open \ Idle /\ ~referenced
  BY Zenon DEF DropReference

\* The types of what DropReference changes.
LEMMA DropTypes ==
    ASSUME TypeOK, NEW referenced, DropReference(referenced)
    PROVE  connections' \in Seq(Connection) /\ open' \in SUBSET Connection
  <1>1. connections \in Seq(Connection) /\ <<>> \in Seq(Connection)
    BY DEF TypeOK
  <1>2. open \in SUBSET Connection /\ open \ Idle \in SUBSET Connection
    BY DEF TypeOK
  <1>3. CASE connections' = connections /\ open' = open
    BY <1>1, <1>2, <1>3
  <1>4. CASE connections' = <<>> /\ open' = open \ Idle
    BY <1>1, <1>2, <1>4
  <1> QED
    BY <1>3, <1>4, DropKeepsOrCloses

\* Every step keeps the types.
LEMMA TypeStep ==
    ASSUME TypeOK, LeaseInv, ActiveCountsLeases, [Next]_vars
    PROVE  TypeOK'
  <1> USE DEF TypeOK, States
  <1>0. active_connections \in Nat
    OBVIOUS
  <1>1. ASSUME NEW c \in Client, GetIdleConnection(c) PROVE TypeOK'
    <2>1. connections # <<>> /\ connections' = FrontTaken
      BY <1>1 DEF GetIdleConnection
    <2>2. connections' \in Seq(Connection) /\ connections[Len(connections)] \in Connection
      BY <2>1, LastTaken
    <2> QED
      BY <1>1, <2>2 DEF GetIdleConnection
  <1>2. ASSUME NEW c \in Client, NEW conn \in Connection, GetNewConnection(c, conn)
        PROVE  TypeOK'
    BY <1>2 DEF GetNewConnection, OpenConnection
  <1>3. ASSUME NEW c \in Client, NEW conn \in Connection,
               GetEphemeralFromPool(c, conn)
        PROVE  TypeOK'
    BY <1>3 DEF GetEphemeralFromPool, OpenConnection
  <1>4. ASSUME NEW c \in Client, NEW conn \in Connection,
               GetEphemeralConnection(c, conn)
        PROVE  TypeOK'
    BY <1>4 DEF GetEphemeralConnection, OpenConnection
  <1>5. ASSUME NEW c \in Client, ReturnConnection(c) PROVE TypeOK'
    <2>0. lease[c] \in Connection
      BY <1>5 DEF ReturnConnection, LeaseInv
    <2>1. active_connections \in Nat \ {0}
      <3>1. c \in Pooled
        BY <1>5 DEF ReturnConnection, Pooled
      <3>2. Cardinality(Pooled) # 0
        BY <3>1, PooledFinite, FS_EmptySet
      <3> QED
        BY <3>2 DEF ActiveCountsLeases
    <2>2. active_connections' \in Nat
      BY <1>5, <2>1 DEF ReturnConnection
    <2>3. connections' \in Seq(Connection)
      BY <1>5, <2>0 DEF ReturnConnection
    <2> QED
      BY <1>5, <2>2, <2>3 DEF ReturnConnection
  <1>6. ASSUME NEW c \in Client, ReleasePool(c) PROVE TypeOK'
    <2>1. connections' \in Seq(Connection) /\ open' \in SUBSET Connection
      BY <1>6, DropTypes DEF ReleasePool
    <2> QED
      BY <1>6, <2>1 DEF ReleasePool
  <1>7. ASSUME NEW c \in Client, CloseEphemeral(c) PROVE TypeOK'
    BY <1>7 DEF CloseEphemeral
  <1>8. ASSUME NEW c \in Client, PlanInsert(c) PROVE TypeOK'
    BY <1>8 DEF PlanInsert
  <1>9. ASSUME NEW c \in Client, DestroyPlan(c) PROVE TypeOK'
    <2>1. connections' \in Seq(Connection) /\ open' \in SUBSET Connection
      BY <1>9, DropTypes DEF DestroyPlan
    <2> QED
      BY <1>9, <2>1 DEF DestroyPlan
  <1>10. CASE Detach
    <2>1. connections' \in Seq(Connection) /\ open' \in SUBSET Connection
      BY <1>10, DropTypes DEF Detach
    <2> QED
      BY <1>10, <2>1 DEF Detach
  <1>11. CASE UNCHANGED vars
    BY <1>11 DEF vars
  <1> QED
    BY <1>1, <1>2, <1>3, <1>4, <1>5, <1>6, <1>7, <1>8, <1>9, <1>10, <1>11
       DEF Next, ClientNext, ConnectFails

-----------------------------------------------------------------------------
\* Who owns which connection.

OwnerInv == LeaseInv /\ ExclusiveLease /\ OpenMeansOwned

Leased == {lease[c] : c \in Client} \ {None}

\* A client without a connection opens one.
LEMMA OpenKeepsOwners ==
    ASSUME TypeOK, OwnerInv, NEW c \in Client, NEW conn \in Connection,
           NEW kind \in {"pooled", "ephemeral"}, state[c] = "none",
           OpenConnection(c, conn, kind), UNCHANGED connections
    PROVE  OwnerInv'
  <1>0. None \notin Connection /\ lease \in [Client -> Connection \cup {None}]
        /\ state \in [Client -> States]
    BY PoolAssumption DEF PoolAssumption, TypeOK
  <1>1. /\ conn \notin open
        /\ open' = open \cup {conn}
        /\ lease' = [lease EXCEPT ![c] = conn]
        /\ state' = [state EXCEPT ![c] = kind]
        /\ Idle' = Idle
    BY DEF OpenConnection, Idle
  <1>2. lease[c] = None
    BY DEF OwnerInv, LeaseInv
  <1>3. conn \notin Idle /\ \A d \in Client : lease[d] # conn
    BY <1>0, <1>1 DEF OwnerInv, OpenMeansOwned
  <1>4. LeaseInv'
    BY <1>0, <1>1 DEF OwnerInv, LeaseInv
  <1>5. ExclusiveLease'
    BY <1>0, <1>1, <1>3 DEF OwnerInv, ExclusiveLease
  <1>6. OpenMeansOwned'
    <2>1. Leased' = Leased \cup {conn}
      BY <1>0, <1>1, <1>2 DEF Leased
    <2> QED
      BY <1>1, <2>1 DEF OwnerInv, OpenMeansOwned, Leased
  <1> QED
    BY <1>4, <1>5, <1>6 DEF OwnerInv

\* A reference to the pool goes away and no connection changes its owner.
LEMMA DropKeepsOwners ==
    ASSUME TypeOK, OwnerInv, NEW referenced, DropReference(referenced),
           UNCHANGED lease, LeaseInv'
    PROVE  OwnerInv'
  <1>1. CASE connections' = connections /\ open' = open
    BY <1>1 DEF OwnerInv, ExclusiveLease, OpenMeansOwned, Idle
  <1>2. CASE connections' = <<>> /\ open' = open \ Idle
    <2>1. Len(connections') = 0 /\ Idle' = {}
      BY <1>2 DEF Idle
    <2>2. ExclusiveLease'
      BY <2>1 DEF OwnerInv, ExclusiveLease
    <2>3. OpenMeansOwned'
      BY <1>2, <2>1 DEF OwnerInv, OpenMeansOwned, ExclusiveLease
    <2> QED
      BY <2>2, <2>3 DEF OwnerInv
  <1> QED
    BY <1>1, <1>2, DropKeepsOrCloses

\* Every step keeps the owners.
LEMMA OwnerStep ==
    ASSUME TypeOK, OwnerInv, [Next]_vars
    PROVE  OwnerInv'
  <1>0. /\ None \notin Connection
        /\ lease \in [Client -> Connection \cup {None}]
        /\ state \in [Client -> States]
    BY PoolAssumption DEF PoolAssumption, TypeOK
  <1>1. ASSUME NEW c \in Client, GetIdleConnection(c) PROVE OwnerInv'
    <2> DEFINE last == connections[Len(connections)]
    <2>1. /\ Idle' = Idle \ {last} /\ last \in Idle
          /\ \A i, j \in 1..Len(connections') :
                connections'[i] = connections'[j] => i = j
      BY <1>1, IdleAfterTake DEF GetIdleConnection, OwnerInv
    <2>2. last \in Connection
      BY <1>1, LastTaken DEF GetIdleConnection
    <2> HIDE DEF last
    <2>3. /\ lease' = [lease EXCEPT ![c] = last]
          /\ state' = [state EXCEPT ![c] = "pooled"]
          /\ open' = open
          /\ state[c] = "none"
      BY <1>1 DEF GetIdleConnection, CanCall, last
    <2>4. lease[c] = None /\ \A d \in Client : lease[d] # last
      BY <2>1, <2>3 DEF OwnerInv, LeaseInv, ExclusiveLease
    <2>5. LeaseInv'
      BY <1>0, <2>2, <2>3 DEF OwnerInv, LeaseInv
    <2>6. ExclusiveLease'
      BY <1>0, <2>1, <2>2, <2>3, <2>4 DEF OwnerInv, ExclusiveLease
    <2>7. Leased' = Leased \cup {last}
      BY <1>0, <2>2, <2>3, <2>4 DEF Leased
    <2>8. OpenMeansOwned'
      BY <2>1, <2>3, <2>7 DEF OwnerInv, OpenMeansOwned, Leased
    <2> QED
      BY <2>5, <2>6, <2>8 DEF OwnerInv
  <1>2. ASSUME NEW c \in Client, NEW conn \in Connection, GetNewConnection(c, conn)
        PROVE  OwnerInv'
    BY <1>2, OpenKeepsOwners DEF GetNewConnection, CanCall
  <1>3. ASSUME NEW c \in Client, NEW conn \in Connection,
               GetEphemeralFromPool(c, conn)
        PROVE  OwnerInv'
    BY <1>3, OpenKeepsOwners DEF GetEphemeralFromPool, CanCall
  <1>4. ASSUME NEW c \in Client, NEW conn \in Connection,
               GetEphemeralConnection(c, conn)
        PROVE  OwnerInv'
    BY <1>4, OpenKeepsOwners DEF GetEphemeralConnection
  <1>5. ASSUME NEW c \in Client, ReturnConnection(c) PROVE OwnerInv'
    <2>1. /\ lease' = [lease EXCEPT ![c] = None]
          /\ state' = [state EXCEPT ![c] = "returning"]
          /\ open' = open
          /\ state[c] = "pooled"
          /\ connections' = Append(connections, lease[c])
      BY <1>5 DEF ReturnConnection
    <2>2. lease[c] \in Connection /\ lease[c] \notin Idle
      BY <1>0, <2>1 DEF OwnerInv, LeaseInv, ExclusiveLease
    <2>3. /\ Idle' = Idle \cup {lease[c]}
          /\ \A i, j \in 1..Len(connections') :
                connections'[i] = connections'[j] => i = j
      BY <2>1, <2>2, IdleAfterReturn DEF OwnerInv
    <2>4. LeaseInv'
      BY <1>0, <2>1 DEF OwnerInv, LeaseInv
    <2>5. \A d \in Client : d # c => lease[d] # lease[c]
      BY <1>0, <2>2 DEF OwnerInv, ExclusiveLease
    <2>6. None \notin Idle'
      <3>1. None \notin Idle
        BY <1>0 DEF Idle, TypeOK
      <3> QED
        BY <1>0, <2>2, <2>3, <3>1
    <2>7. ExclusiveLease'
      BY <1>0, <2>1, <2>2, <2>3, <2>5, <2>6 DEF OwnerInv, ExclusiveLease
    <2>8. Leased' = Leased \ {lease[c]}
      BY <1>0, <2>1, <2>2, <2>5 DEF Leased
    <2>9. lease[c] \in Leased
      BY <1>0, <2>2 DEF Leased
    <2>10. OpenMeansOwned'
      BY <2>1, <2>3, <2>8, <2>9 DEF OwnerInv, OpenMeansOwned, Leased
    <2> QED
      BY <2>4, <2>7, <2>10 DEF OwnerInv
  <1>6. ASSUME NEW c \in Client, ReleasePool(c) PROVE OwnerInv'
    <2>1. LeaseInv'
      BY <1>0, <1>6 DEF ReleasePool, OwnerInv, LeaseInv
    <2> QED
      BY <1>6, <2>1, DropKeepsOwners DEF ReleasePool
  <1>7. ASSUME NEW c \in Client, CloseEphemeral(c) PROVE OwnerInv'
    <2>1. /\ lease' = [lease EXCEPT ![c] = None]
          /\ state' = [state EXCEPT ![c] = "none"]
          /\ open' = open \ {lease[c]}
          /\ state[c] = "ephemeral"
          /\ connections' = connections
          /\ Idle' = Idle
      BY <1>7 DEF CloseEphemeral, Idle
    <2>2. lease[c] \in Connection /\ lease[c] \notin Idle
      BY <1>0, <2>1 DEF OwnerInv, LeaseInv, ExclusiveLease
    <2>3. \A d \in Client : d # c => lease[d] # lease[c]
      BY <1>0, <2>2 DEF OwnerInv, ExclusiveLease
    <2>4. None \notin Idle
      BY <1>0 DEF Idle, TypeOK
    <2>5. LeaseInv'
      BY <1>0, <2>1 DEF OwnerInv, LeaseInv
    <2>6. ExclusiveLease'
      BY <1>0, <2>1, <2>3, <2>4 DEF OwnerInv, ExclusiveLease
    <2>7. Leased' = Leased \ {lease[c]}
      BY <1>0, <2>1, <2>2, <2>3 DEF Leased
    <2>8. OpenMeansOwned'
      BY <2>1, <2>2, <2>7 DEF OwnerInv, OpenMeansOwned, Leased
    <2> QED
      BY <2>5, <2>6, <2>8 DEF OwnerInv
  <1>8. ASSUME NEW c \in Client, PlanInsert(c) PROVE OwnerInv'
    BY <1>8 DEF PlanInsert, OwnerInv, LeaseInv, ExclusiveLease, OpenMeansOwned, Idle
  <1>9. ASSUME NEW c \in Client, DestroyPlan(c) PROVE OwnerInv'
    <2>1. LeaseInv'
      BY <1>9 DEF DestroyPlan, OwnerInv, LeaseInv
    <2> QED
      BY <1>9, <2>1, DropKeepsOwners DEF DestroyPlan
  <1>10. CASE Detach
    <2>1. LeaseInv'
      BY <1>10 DEF Detach, OwnerInv, LeaseInv
    <2> QED
      BY <1>10, <2>1, DropKeepsOwners DEF Detach
  <1>11. CASE UNCHANGED vars
    BY <1>11 DEF vars, OwnerInv, LeaseInv, ExclusiveLease, OpenMeansOwned, Idle
  <1> QED
    BY <1>1, <1>2, <1>3, <1>4, <1>5, <1>6, <1>7, <1>8, <1>9, <1>10, <1>11
       DEF Next, ClientNext, ConnectFails

-----------------------------------------------------------------------------
\* How many connections the pool has.

CountInv == ActiveCountsLeases /\ PoolBounded /\ UnreferencedPoolIsEmpty

Referenced == StillReferenced(attached, planned, Client)

\* A step that leaves the idle connections and the lent ones alone, and takes
\* no reference away.
LEMMA CountsUnchanged ==
    ASSUME CountInv, UNCHANGED <<connections, active_connections>>,
           Pooled' = Pooled, Referenced => Referenced'
    PROVE  CountInv'
  BY DEF CountInv, ActiveCountsLeases, PoolBounded, UnreferencedPoolIsEmpty,
         Referenced

\* A step that takes a reference away.
LEMMA DropKeepsCounts ==
    ASSUME TypeOK, CountInv, NEW referenced, DropReference(referenced),
           referenced <=> Referenced', UNCHANGED active_connections,
           Pooled' = Pooled
    PROVE  CountInv'
  <1>1. ActiveCountsLeases'
    BY DEF CountInv, ActiveCountsLeases
  <1>2. CASE connections' = connections /\ referenced
    BY <1>1, <1>2 DEF CountInv, PoolBounded, UnreferencedPoolIsEmpty, Referenced
  <1>3. CASE connections' = <<>> /\ ~referenced
    <2>1. ~Referenced' /\ Len(connections') = 0
      BY <1>3
    <2>2. active_connections' = 0 /\ Cardinality(Pooled') = 0
      <3>1. Pooled' = {}
        BY <2>1 DEF Referenced, StillReferenced, Pooled
      <3> QED
        BY <1>1, <3>1, FS_EmptySet DEF ActiveCountsLeases
    <2>3. max_connections \in Nat
      BY PoolAssumption DEF PoolAssumption
    <2>4. PoolBounded'
      BY <2>1, <2>2, <2>3 DEF PoolBounded
    <2> QED
      BY <1>1, <1>3, <2>2, <2>4 DEF CountInv, UnreferencedPoolIsEmpty
  <1> QED
    BY <1>2, <1>3, DropKeepsOrCloses

\* Every step keeps the counts.
LEMMA CountStep ==
    ASSUME TypeOK, CountInv, [Next]_vars
    PROVE  CountInv'
  <1>0. /\ state \in [Client -> States]
        /\ connections \in Seq(Connection) /\ Len(connections) \in Nat
        /\ active_connections \in Nat
        /\ max_connections \in Nat \ {0}
        /\ Cardinality(Pooled) \in Nat
    BY PoolAssumption, PooledFinite DEF PoolAssumption, TypeOK
  <1>1. ASSUME NEW c \in Client, GetIdleConnection(c) PROVE CountInv'
    <2>1. /\ state[c] # "pooled"
          /\ state' = [state EXCEPT ![c] = "pooled"]
          /\ active_connections' = active_connections + 1
      BY <1>1 DEF GetIdleConnection, CanCall
    <2>2. Cardinality(Pooled)' = Cardinality(Pooled) + 1
      BY <2>1, PooledGrows
    <2>3. Len(connections') = Len(connections) - 1
      BY <1>1, LastTaken DEF GetIdleConnection
    <2>4. ActiveCountsLeases' /\ PoolBounded'
      BY <1>0, <2>1, <2>2, <2>3 DEF CountInv, ActiveCountsLeases, PoolBounded
    <2>5. Referenced'
      BY <1>0, <2>1 DEF Referenced, StillReferenced
    <2> QED
      BY <2>4, <2>5 DEF CountInv, UnreferencedPoolIsEmpty, Referenced
  <1>2. ASSUME NEW c \in Client, NEW conn \in Connection, GetNewConnection(c, conn)
        PROVE  CountInv'
    <2>1. /\ state[c] # "pooled"
          /\ state' = [state EXCEPT ![c] = "pooled"]
          /\ active_connections' = active_connections + 1
          /\ active_connections # max_connections
          /\ Len(connections) = 0 /\ Len(connections') = 0
      BY <1>2 DEF GetNewConnection, CanCall, OpenConnection, Exhausted
    <2>2. Cardinality(Pooled)' = Cardinality(Pooled) + 1
      BY <2>1, PooledGrows
    <2>3. ActiveCountsLeases' /\ PoolBounded'
      BY <1>0, <2>1, <2>2 DEF CountInv, ActiveCountsLeases, PoolBounded
    <2>4. Referenced'
      BY <1>0, <2>1 DEF Referenced, StillReferenced
    <2> QED
      BY <2>3, <2>4 DEF CountInv, UnreferencedPoolIsEmpty, Referenced
  <1>3. ASSUME NEW c \in Client, NEW conn \in Connection,
               \/ GetEphemeralFromPool(c, conn)
               \/ GetEphemeralConnection(c, conn)
        PROVE  CountInv'
    <2>1. /\ state[c] = "none"
          /\ state' = [state EXCEPT ![c] = "ephemeral"]
          /\ UNCHANGED <<connections, active_connections, attached, planned>>
      BY <1>3 DEF GetEphemeralFromPool, GetEphemeralConnection, OpenConnection,
                  CanCall
    <2>2. Pooled' = Pooled
      BY <2>1, PooledSame
    <2>3. Referenced => Referenced'
      BY <1>0, <2>1 DEF Referenced, StillReferenced
    <2> QED
      BY <2>1, <2>2, <2>3, CountsUnchanged
  <1>4. ASSUME NEW c \in Client, ReturnConnection(c) PROVE CountInv'
    <2>1. /\ state[c] = "pooled"
          /\ state' = [state EXCEPT ![c] = "returning"]
          /\ active_connections' = active_connections - 1
      BY <1>4 DEF ReturnConnection
    <2>2. /\ Cardinality(Pooled)' = Cardinality(Pooled) - 1
          /\ Cardinality(Pooled) \in Nat \ {0}
      BY <2>1, PooledShrinks
    <2>3. Len(connections') = Len(connections) + 1
      BY <1>0, <1>4 DEF ReturnConnection
    <2>4. ActiveCountsLeases' /\ PoolBounded'
      BY <1>0, <2>1, <2>2, <2>3 DEF CountInv, ActiveCountsLeases, PoolBounded
    <2>5. Referenced'
      BY <1>0, <2>1 DEF Referenced, StillReferenced
    <2> QED
      BY <2>4, <2>5 DEF CountInv, UnreferencedPoolIsEmpty, Referenced
  <1>5. ASSUME NEW c \in Client, ReleasePool(c) PROVE CountInv'
    <2>1. /\ state[c] = "returning"
          /\ state' = [state EXCEPT ![c] = "none"]
          /\ UNCHANGED <<active_connections, attached, planned>>
          /\ DropReference(StillReferenced(attached, planned, Client \ {c}))
      BY <1>5 DEF ReleasePool
    <2>2. Pooled' = Pooled
      BY <2>1, PooledSame
    <2>3. StillReferenced(attached, planned, Client \ {c}) <=> Referenced'
      BY <1>0, <2>1 DEF Referenced, StillReferenced
    <2> QED
      BY <2>1, <2>2, <2>3, DropKeepsCounts
  <1>6. ASSUME NEW c \in Client, CloseEphemeral(c) PROVE CountInv'
    <2>1. /\ state[c] = "ephemeral"
          /\ state' = [state EXCEPT ![c] = "none"]
          /\ UNCHANGED <<connections, active_connections, attached, planned>>
      BY <1>6 DEF CloseEphemeral
    <2>2. Pooled' = Pooled
      BY <2>1, PooledSame
    <2>3. Referenced => Referenced'
      BY <1>0, <2>1 DEF Referenced, StillReferenced
    <2> QED
      BY <2>1, <2>2, <2>3, CountsUnchanged
  <1>7. ASSUME NEW c \in Client, PlanInsert(c) PROVE CountInv'
    <2>1. Pooled' = Pooled /\ UNCHANGED <<connections, active_connections>>
      BY <1>7 DEF PlanInsert, Pooled
    <2>2. Referenced'
      BY <1>7 DEF PlanInsert, Referenced, StillReferenced
    <2> QED
      BY <2>1, <2>2, CountsUnchanged
  <1>8. ASSUME NEW c \in Client, DestroyPlan(c) PROVE CountInv'
    <2>1. /\ UNCHANGED <<active_connections, state, attached>>
          /\ planned' = planned \ {c}
          /\ DropReference(StillReferenced(attached, planned \ {c}, Client))
      BY <1>8 DEF DestroyPlan
    <2>2. Pooled' = Pooled
      BY <2>1 DEF Pooled
    <2>3. StillReferenced(attached, planned \ {c}, Client) <=> Referenced'
      BY <2>1 DEF Referenced, StillReferenced
    <2> QED
      BY <2>1, <2>2, <2>3, DropKeepsCounts
  <1>9. CASE Detach
    <2>1. /\ UNCHANGED <<active_connections, state, planned>>
          /\ attached' = FALSE
          /\ DropReference(StillReferenced(FALSE, planned, Client))
      BY <1>9 DEF Detach
    <2>2. Pooled' = Pooled
      BY <2>1 DEF Pooled
    <2>3. StillReferenced(FALSE, planned, Client) <=> Referenced'
      BY <2>1 DEF Referenced, StillReferenced
    <2> QED
      BY <2>1, <2>2, <2>3, DropKeepsCounts
  <1>10. CASE UNCHANGED vars
    <2>1. /\ UNCHANGED <<connections, active_connections>>
          /\ Pooled' = Pooled
          /\ Referenced => Referenced'
      BY <1>10 DEF vars, Pooled, Referenced, StillReferenced
    <2> QED
      BY <2>1, CountsUnchanged
  <1> QED
    BY <1>1, <1>2, <1>3, <1>4, <1>5, <1>6, <1>7, <1>8, <1>9, <1>10
       DEF Next, ClientNext, ConnectFails

-----------------------------------------------------------------------------
\* A new pool is empty.
LEMMA IndInit == Init => IndInv
  <1> SUFFICES ASSUME Init PROVE IndInv
    OBVIOUS
  <1>0. max_connections \in Nat
    BY PoolAssumption DEF PoolAssumption
  <1>1. TypeOK
    BY DEF Init, TypeOK, States
  <1>2. Len(connections) = 0 /\ Idle = {}
    BY DEF Init, Idle
  <1>3. LeaseInv /\ ExclusiveLease /\ OpenMeansOwned
    BY <1>2 DEF Init, LeaseInv, ExclusiveLease, OpenMeansOwned
  <1>4. Cardinality(Pooled) = 0
    <2>1. Pooled = {}
      BY DEF Init, Pooled
    <2> QED
      BY <2>1, FS_EmptySet
  <1>5. ActiveCountsLeases /\ PoolBounded /\ UnreferencedPoolIsEmpty
    BY <1>0, <1>2, <1>4
       DEF Init, ActiveCountsLeases, PoolBounded, UnreferencedPoolIsEmpty
  <1> QED
    BY <1>1, <1>3, <1>5 DEF IndInv

\* IndInv holds in every reachable state of the pool.
THEOREM Inductive == Spec => []IndInv
  <1>1. IndInv /\ [Next]_vars => IndInv'
    BY TypeStep, OwnerStep, CountStep DEF IndInv, OwnerInv, CountInv
  <1> QED
    BY <1>1, IndInit, PTL DEF Spec

\* Types; the idx_t count of lent connections never wraps below zero.
THEOREM TypeCorrect == Spec => []TypeOK
  <1>1. IndInv => TypeOK
    BY DEF IndInv
  <1> QED
    BY <1>1, Inductive, PTL

\* No connection is ever used by two statements, or lent while it is idle.
THEOREM LeasesAreExclusive == Spec => []ExclusiveLease
  <1>1. IndInv => ExclusiveLease
    BY DEF IndInv
  <1> QED
    BY <1>1, Inductive, PTL

\* No connection leaks and none is used after it was closed, whether the
\* catalog is detached before or after its statements end.
THEOREM NoConnectionLeaks == Spec => []OpenMeansOwned
  <1>1. IndInv => OpenMeansOwned
    BY DEF IndInv
  <1> QED
    BY <1>1, Inductive, PTL

\* The pool never has more connections than adbc_connection_pool_size.
THEOREM PoolStaysBounded == Spec => []PoolBounded
  <1>1. IndInv => PoolBounded
    BY DEF IndInv
  <1> QED
    BY <1>1, Inductive, PTL

\* active_connections is the number of lent connections of the pool.
THEOREM CountIsExact == Spec => []ActiveCountsLeases
  <1>1. IndInv => ActiveCountsLeases
    BY DEF IndInv
  <1> QED
    BY <1>1, Inductive, PTL

\* The last owner of the pool to go leaves no connection behind.
THEOREM LastOwnerEmptiesPool == Spec => []UnreferencedPoolIsEmpty
  <1>1. IndInv => UnreferencedPoolIsEmpty
    BY DEF IndInv
  <1> QED
    BY <1>1, Inductive, PTL
=============================================================================

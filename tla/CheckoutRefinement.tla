------------------------- MODULE CheckoutRefinement -------------------------
(***************************************************************************)
(* The checkout controller implements Storage, for every number of         *)
(* checkouts, replicas and claim names, every choice of environment events *)
(* and any delay of the caches.                                            *)
(***************************************************************************)
EXTENDS CheckoutProofs

Custodies == [r \in Replicas |-> Custody(r)]

(* What one step may do to the storage. *)
Permitted == Promise!Next \/ UNCHANGED Custodies

-----------------------------------------------------------------------------
(* The cases of the mapping *)

LEMMA CustodyCases ==
  ASSUME NEW r \in Replicas
  PROVE  /\ uids[PoolClaim(r)] = 0 => Custody(r) = Promise!Unmade
         /\ uids[PoolClaim(r)] # 0 =>
              /\ Custody(r) # Promise!Unmade
              /\ Exists(pv[Copy(r)]) => 
                   Custody(r) = Promise!GivenTo(pv[Copy(r)].ref.claim)
              /\ ~Exists(pv[Copy(r)]) =>
                   /\ InFlight(r) => Custody(r) = Promise!LockedFor(rec.c)
                   /\ ~InFlight(r) =>
                        /\ ~Exists(pv[Source(r)]) => Custody(r) = Promise!Gone
                        /\ Exists(pv[Source(r)]) => 
                             /\ pv[Source(r)].ref.claim = PoolClaim(r)
                                  => Custody(r) = Promise!InPool
                             /\ \A c \in Checkouts : LockedBy(r, c)
                                  => Custody(r) = Promise!LockedFor(c)
<1>1. \A c \in Checkouts : LockedBy(r, c) => 
        /\ pv[Source(r)].ref.claim # PoolClaim(r)
        /\ pv[Source(r)].ref.claim[2] = c
  BY DEF LockedBy, LockedClaim, PoolClaim
<1> QED BY <1>1 DEF Custody, Promise!Unmade, Promise!GivenTo, 
           Promise!LockedFor, Promise!Gone, Promise!InPool

(* The custody depends on the references of the two volumes only. *)
LEMMA CustodyStays ==
  ASSUME NEW r \in Replicas, 
         uids'[PoolClaim(r)] = uids[PoolClaim(r)],
         \A v \in {Source(r), Copy(r)} : 
           /\ Exists(pv'[v]) <=> Exists(pv[v])
           /\ Exists(pv[v]) => pv'[v].ref = pv[v].ref,
         InFlight(r)' <=> InFlight(r),
         InFlight(r) => rec'.c = rec.c
  PROVE  Custody(r)' = Custody(r)
BY DEF Custody

LEMMA OneMoves ==
  ASSUME NEW r \in Replicas, NEW from, NEW to,
         Custody(r) = from, Custody(r)' = to,
         \A s \in Replicas : s # r => Custody(s)' = Custody(s)
  PROVE  Promise!Moves(r, from, to)
<1>1. Custodies' = [Custodies EXCEPT ![r] = to]
  BY DEF Custodies
<1> QED BY <1>1 DEF Custodies, Promise!Moves

LEMMA OneIsLost ==
  ASSUME NEW r \in Replicas, uids[PoolClaim(r)] # 0, 
         Custody(r)' = Promise!Gone,
         \A s \in Replicas : s # r => Custody(s)' = Custody(s)
  PROVE  Promise!Next
<1>1. Custodies' = [Custodies EXCEPT ![r] = Promise!Gone]
  BY DEF Custodies
<1>2. Custodies[r] # Promise!Unmade
  BY CustodyCases DEF Custodies
<1> QED BY <1>1, <1>2 DEF Custodies, Promise!Lose, Promise!Next

LEMMA NoneMoves ==
  ASSUME \A s \in Replicas : Custody(s)' = Custody(s)
  PROVE  UNCHANGED Custodies
BY DEF Custodies

(* A volume that exists belongs to a replica that was made. *)
LEMMA MadeBefore ==
  ASSUME IInv, NEW r \in Replicas, 
         Exists(pv[Source(r)]) \/ Exists(pv[Copy(r)]) \/ InFlight(r)
  PROVE  uids[PoolClaim(r)] # 0
BY DEF IInv, NotYetMade, InFlight, Locking

(* At most one source is in flight, and the checkout of the reconcile      *)
(* holds it.                                                               *)
LEMMA Flight ==
  ASSUME IInv, NEW r \in Replicas, InFlight(r)
  PROVE  /\ rec.c \in Checkouts
         /\ Exists(pv[Source(r)]) => LockedBy(r, rec.c)
         /\ Exists(pv[Copy(r)]) => pv[Copy(r)].ref.claim = ClaimFor(rec.c)
         /\ \A s \in Replicas : InFlight(s) => s = r
<1>1. rec.c \in Checkouts
  BY DEF IInv, TypeOK, InFlight
<1> QED BY <1>1, NamesDiffer DEF IInv, LockHeld, PastLock, InFlight

-----------------------------------------------------------------------------
(* Steps that change no reference and remove no volume: at most they end   *)
(* the reconcile, and with it what was in flight.                          *)

ReferencesKept ==
  /\ \A v \in PvNames : 
       /\ Exists(pv'[v]) <=> Exists(pv[v])
       /\ Exists(pv[v]) => pv'[v].ref = pv[v].ref
  /\ \A r \in Replicas : uids'[PoolClaim(r)] = uids[PoolClaim(r)]

LEMMA FlightContinues ==
  ASSUME ReferencesKept, 
         \A r \in Replicas : InFlight(r)' <=> InFlight(r),
         rec'.c = rec.c
  PROVE  Permitted
<1>1. \A r \in Replicas : Custody(r)' = Custody(r)
  BY CustodyStays, NameTypes DEF ReferencesKept
<1> QED BY <1>1, NoneMoves DEF Permitted

LEMMA FlightEnds ==
  ASSUME IInv, ReferencesKept, rec'.pc \notin PastLock
  PROVE  Permitted
<1>1. \A r \in Replicas : ~InFlight(r)'
  BY DEF InFlight, PastLock
<1>2. \A s \in Replicas : ~InFlight(s) => Custody(s)' = Custody(s)
  BY <1>1, CustodyStays, NameTypes DEF ReferencesKept
<1>3. CASE \A r \in Replicas : ~InFlight(r)
  BY <1>2, <1>3, NoneMoves DEF Permitted
<1>4. ASSUME NEW r \in Replicas, InFlight(r) PROVE Permitted
  <2>1. /\ uids'[PoolClaim(r)] = uids[PoolClaim(r)] 
        /\ uids[PoolClaim(r)] # 0
    BY <1>4, MadeBefore DEF ReferencesKept
  <2>2. \A s \in Replicas : s # r => Custody(s)' = Custody(s)
    BY <1>2, <1>4, Flight
  <2>3. /\ Exists(pv'[Copy(r)]) <=> Exists(pv[Copy(r)])
        /\ Exists(pv[Copy(r)]) => pv'[Copy(r)].ref = pv[Copy(r)].ref
        /\ Exists(pv'[Source(r)]) <=> Exists(pv[Source(r)])
        /\ Exists(pv[Source(r)]) => pv'[Source(r)].ref = pv[Source(r)].ref
    BY NameTypes DEF ReferencesKept
  <2>4. CASE Exists(pv[Copy(r)])
    <3>1. Custody(r)' = Custody(r)
      BY <2>1, <2>3, <2>4 DEF Custody
    <3> QED BY <2>2, <3>1, NoneMoves DEF Permitted
  <2>5. CASE ~Exists(pv[Copy(r)]) /\ Exists(pv[Source(r)])
    <3>1. rec.c \in Checkouts /\ LockedBy(r, rec.c)
      BY <1>4, <2>5, Flight
    <3>2. Custody(r) = <<"locked", rec.c>>
      BY <1>4, <2>1, <2>5 DEF Custody
    <3>3. /\ pv'[Source(r)].ref.claim # PoolClaim(r)
          /\ pv'[Source(r)].ref.claim[2] = rec.c
      BY <2>3, <2>5, <3>1 DEF LockedBy, LockedClaim, PoolClaim
    <3>4. Custody(r)' = <<"locked", rec.c>>
      BY <1>1, <2>1, <2>3, <2>5, <3>3 DEF Custody
    <3> QED BY <2>2, <3>2, <3>4, NoneMoves DEF Permitted
  <2>6. CASE ~Exists(pv[Copy(r)]) /\ ~Exists(pv[Source(r)])
    <3>1. Custody(r)' = Promise!Gone
      BY <1>1, <2>1, <2>3, <2>6 DEF Custody, Promise!Gone
    <3> QED BY <2>1, <2>2, <3>1, OneIsLost DEF Permitted
  <2> QED BY <2>4, <2>5, <2>6
<1> QED BY <1>3, <1>4

-----------------------------------------------------------------------------
(* Steps that write or remove a volume *)

(* lockVolume: the pool's source becomes the checkout's; a source that is  *)
(* the checkout's already stays so.                                        *)
LEMMA LockVolumeAllowed ==
  ASSUME IInv, LockVolume
  PROVE  Permitted
<1>1. /\ pv[rec.source] = rec.sourceObj /\ Exists(rec.sourceObj)
      /\ pv' = [pv EXCEPT ![rec.source] = LockedSource]
      /\ UNCHANGED uids
      /\ rec.pc = "lockVolume" /\ rec'.pc = "claim"
      /\ rec'.source = rec.source /\ rec'.c = rec.c
      /\ rec.c \in Checkouts /\ rec.sourceObj \in Pvs
  BY DEF IInv, TypeOK, Recs, LoadedOK, Locking, LockVolume, PutVolume
<1>2. PICK r \in Replicas :
        /\ rec.source = Source(r)
        /\ Pooled(r, rec.sourceObj) \/ Taken(rec.c, rec.sourceObj)
  BY DEF IInv, LoadedOK, LockVolume, Locking
<1>3. /\ Exists(LockedSource) 
      /\ LockedSource.ref.claim = LockedClaim(rec.c)
  BY <1>1 DEF LockedSource, Locked, Exists, Pvs
<1>4. /\ pv'[Source(r)] = LockedSource
      /\ \A s \in Replicas : s # r => pv'[Source(s)] = pv[Source(s)]
      /\ \A s \in Replicas : pv'[Copy(s)] = pv[Copy(s)]
  BY <1>1, <1>2, NamesDiffer, NameTypes DEF IInv, TypeOK, ClusterTypeOK
<1>5. \A s \in Replicas : ~InFlight(s) /\ (InFlight(s)' => s = r)
  BY <1>1, <1>2, NamesDiffer DEF InFlight
<1>6. InFlight(r)'
  BY <1>1, <1>2 DEF InFlight
<1>7. \A s \in Replicas : s # r => Custody(s)' = Custody(s)
  BY <1>1, <1>4, <1>5 DEF Custody
<1>8. uids[PoolClaim(r)] # 0
  BY <1>1, <1>2, MadeBefore
<1>9. CASE Exists(pv[Copy(r)])
  <2>1. Custody(r)' = Custody(r)
    BY <1>1, <1>4, <1>8, <1>9 DEF Custody
  <2> QED BY <1>7, <2>1, NoneMoves DEF Permitted
<1>10. CASE ~Exists(pv[Copy(r)])
  <2>1. Custody(r)' = Promise!LockedFor(rec.c)
    BY <1>1, <1>4, <1>6, <1>8, <1>10 DEF Custody, Promise!LockedFor
  <2>2. CASE Pooled(r, rec.sourceObj)
    <3>1. Custody(r) = Promise!InPool
      BY <1>1, <1>2, <1>5, <1>8, <1>10, <2>2 
         DEF Custody, Pooled, Promise!InPool
    <3>2. Promise!Lock(r, rec.c)
      BY <1>7, <2>1, <3>1, OneMoves DEF Promise!Lock
    <3> QED BY <1>1, <3>2 DEF Permitted, Promise!Next
  <2>3. CASE Taken(rec.c, rec.sourceObj)
    <3>1. LockedBy(r, rec.c)
      BY <1>1, <1>2, <2>3 DEF LockedBy, Taken
    <3>2. Custody(r) = Promise!LockedFor(rec.c)
      BY <1>1, <1>5, <1>8, <1>10, <3>1, CustodyCases DEF LockedBy
    <3> QED BY <1>7, <2>1, <3>2, NoneMoves DEF Permitted
  <2> QED BY <1>2, <2>2, <2>3
<1> QED BY <1>9, <1>10

(* volume: what the checkout holds goes to the claim it asked for. *)
LEMMA PersistVolumeAllowed ==
  ASSUME IInv, PersistVolume
  PROVE  Permitted
<1>1. /\ rec.pc = "volume" /\ rec'.pc = "status"
      /\ rec.volume[2] = rec.source[2]
      /\ pv' = [pv EXCEPT ![rec.volume] = CopiedVolume]
      /\ pv[rec.volume] = rec.volumeObj
      /\ UNCHANGED uids
      /\ rec.volumeObj \in Pvs
  BY DEF IInv, TypeOK, Recs, PersistVolume, PutVolume
<1>2. PICK r \in Replicas : rec.source = Source(r) /\ rec.volume = Copy(r)
  BY <1>1 DEF IInv, LoadedOK, Locking, Copies, Copy, Source
<1>3. InFlight(r) /\ \A s \in Replicas : ~InFlight(s)'
  BY <1>1, <1>2 DEF InFlight
<1>4. /\ Exists(CopiedVolume)
      /\ CopiedVolume.ref.claim = ClaimFor(rec.c)
  BY DEF CopiedVolume, Wanted, Exists
<1>5. /\ pv'[Copy(r)] = CopiedVolume
      /\ \A s \in Replicas :
           /\ s # r => pv'[Copy(s)] = pv[Copy(s)]
           /\ pv'[Source(s)] = pv[Source(s)]
  BY <1>1, <1>2, CopyWritten DEF IInv
<1>6. \A s \in Replicas : s # r => Custody(s)' = Custody(s)
  BY <1>1, <1>3, <1>5, Flight DEF Custody
<1>7. uids[PoolClaim(r)] # 0 /\ rec.c \in Checkouts
  BY <1>3, MadeBefore, Flight
<1>8. Custody(r)' = Promise!GivenTo(ClaimFor(rec.c))
  BY <1>1, <1>4, <1>5, <1>7 DEF Custody, Promise!GivenTo
<1>9. CASE Exists(pv[Copy(r)])
  <2>1. Custody(r) = Promise!GivenTo(ClaimFor(rec.c))
    BY <1>3, <1>7, <1>9, Flight, CustodyCases
  <2> QED BY <1>6, <1>8, <2>1, NoneMoves DEF Permitted
<1>10. CASE ~Exists(pv[Copy(r)])
  <2>1. Custody(r) = Promise!LockedFor(rec.c)
    BY <1>3, <1>7, <1>10, CustodyCases
  <2>2. Promise!Give(r, rec.c)
    BY <1>6, <1>7, <1>8, <2>1, OneMoves DEF Promise!Give
  <2> QED BY <1>7, <2>2 DEF Permitted, Promise!Next
<1> QED BY <1>9, <1>10

(* A source that goes takes the storage with it, unless there is a copy or *)
(* the reconcile is about to make one.                                     *)
LEMMA SourceRemovedAllowed ==
  ASSUME IInv, NEW r \in Replicas, Exists(pv[Source(r)]),
         pv' = [pv EXCEPT ![Source(r)] = NoPv], UNCHANGED <<uids, rec>>
  PROVE  Permitted
<1>1. /\ ~Exists(pv'[Source(r)])
      /\ \A s \in Replicas : s # r => pv'[Source(s)] = pv[Source(s)]
      /\ \A s \in Replicas : pv'[Copy(s)] = pv[Copy(s)]
  <2>1. TypeOK /\ ~Exists(NoPv)
    BY DEF IInv, NoPv, Exists
  <2> QED BY <2>1, SourceWritten
<1>2. \A s \in Replicas : InFlight(s)' <=> InFlight(s)
  BY DEF InFlight
<1>3. \A s \in Replicas : s # r => Custody(s)' = Custody(s)
  BY <1>1, <1>2 DEF Custody
<1>4. uids[PoolClaim(r)] # 0
  BY MadeBefore
<1>5. CASE Exists(pv[Copy(r)]) \/ InFlight(r)
  <2>1. Custody(r)' = Custody(r)
    BY <1>1, <1>2, <1>4, <1>5 DEF Custody
  <2> QED BY <1>3, <2>1, NoneMoves DEF Permitted
<1>6. CASE ~Exists(pv[Copy(r)]) /\ ~InFlight(r)
  <2>1. Custody(r)' = Promise!Gone
    BY <1>1, <1>2, <1>4, <1>6 DEF Custody, Promise!Gone
  <2> QED BY <1>3, <1>4, <2>1, OneIsLost DEF Permitted
<1> QED BY <1>5, <1>6

(* A copy that goes leaves the storage to whoever has the source. *)
LEMMA CopyRemovedAllowed ==
  ASSUME IInv, NEW r \in Replicas, Exists(pv[Copy(r)]),
         pv' = [pv EXCEPT ![Copy(r)] = NoPv], UNCHANGED <<uids, rec>>
  PROVE  Permitted
<1>1. /\ ~Exists(pv'[Copy(r)])
      /\ \A s \in Replicas : s # r => pv'[Copy(s)] = pv[Copy(s)]
      /\ \A s \in Replicas : pv'[Source(s)] = pv[Source(s)]
  <2>1. TypeOK /\ ~Exists(NoPv)
    BY DEF IInv, NoPv, Exists
  <2> QED BY <2>1, CopyWritten
<1>2. \A s \in Replicas : InFlight(s)' <=> InFlight(s)
  BY DEF InFlight
<1>3. \A s \in Replicas : s # r => Custody(s)' = Custody(s)
  BY <1>1, <1>2 DEF Custody
<1>4. uids[PoolClaim(r)] # 0
  BY MadeBefore
<1>5. ASSUME NEW c \in Checkouts, pv[Copy(r)].ref.claim = ClaimFor(c),
             Custody(r)' = Promise!LockedFor(c)
      PROVE  Permitted
  <2>1. Custody(r) = Promise!GivenTo(ClaimFor(c))
    BY <1>4, <1>5, CustodyCases
  <2>2. Promise!Return(r, c)
    BY <1>3, <1>5, <2>1, OneMoves DEF Promise!Return
  <2> QED BY <2>2 DEF Permitted, Promise!Next
<1>6. CASE InFlight(r)
  <2>1. Custody(r)' = Promise!LockedFor(rec.c)
    BY <1>1, <1>2, <1>4, <1>6 DEF Custody, Promise!LockedFor
  <2> QED BY <1>5, <1>6, <2>1, Flight
<1>7. CASE ~InFlight(r) /\ Exists(pv[Source(r)])
  <2>1. PICK c \in Checkouts : 
          LockedBy(r, c) /\ pv[Copy(r)].ref.claim = ClaimFor(c)
    BY <1>7 DEF IInv, ExclusiveStorage
  <2>2. /\ pv'[Source(r)].ref.claim # PoolClaim(r)
        /\ pv'[Source(r)].ref.claim[2] = c
    BY <1>1, <2>1 DEF LockedBy, LockedClaim, PoolClaim
  <2>3. Custody(r)' = Promise!LockedFor(c)
    BY <1>1, <1>2, <1>4, <1>7, <2>2 DEF Custody, Promise!LockedFor
  <2> QED BY <1>5, <2>1, <2>3
<1>8. CASE ~InFlight(r) /\ ~Exists(pv[Source(r)])
  <2>1. Custody(r)' = Promise!Gone
    BY <1>1, <1>2, <1>4, <1>8 DEF Custody, Promise!Gone
  <2> QED BY <1>3, <1>4, <2>1, OneIsLost DEF Permitted
<1> QED BY <1>6, <1>7, <1>8

LEMMA PoolStockAllowed ==
  ASSUME IInv, NEW r \in Replicas, PoolStock(r)
  PROVE  Permitted
<1>1. /\ uids[PoolClaim(r)] = 0
      /\ uids' = [uids EXCEPT ![PoolClaim(r)] = 1]
      /\ UNCHANGED rec
  BY DEF PoolStock, ctlVars
<1>2. /\ Exists(pv'[Source(r)]) /\ pv'[Source(r)].ref.claim = PoolClaim(r)
      /\ \A s \in Replicas : s # r => pv'[Source(s)] = pv[Source(s)]
      /\ \A s \in Replicas : pv'[Copy(s)] = pv[Copy(s)]
  <2> DEFINE o == [meta |-> "live", 
                   ref |-> [claim |-> PoolClaim(r), uid |-> 1],
                   policy |-> OriginalPolicy, saved |-> "none", 
                   phase |-> "Bound"]
  <2>1. TypeOK /\ pv' = [pv EXCEPT ![Source(r)] = o]
    BY DEF IInv, PoolStock
  <2>2. Exists(o) /\ o.ref.claim = PoolClaim(r)
    BY DEF Exists
  <2> HIDE DEF o
  <2> QED BY <2>1, <2>2, SourceWritten
<1>3. ~Exists(pv[Copy(r)]) /\ ~InFlight(r)
  BY <1>1, MadeBefore
<1>4. /\ uids'[PoolClaim(r)] = 1
      /\ \A s \in Replicas : 
           s # r => uids'[PoolClaim(s)] = uids[PoolClaim(s)]
  <2>1. \A s \in Replicas : s # r => PoolClaim(s) # PoolClaim(r)
    BY DEF PoolClaim
  <2> QED BY <1>1, <2>1, NameTypes DEF IInv, TypeOK, ClusterTypeOK
<1>5. \A s \in Replicas : InFlight(s)' <=> InFlight(s)
  BY <1>1 DEF InFlight
<1>6. \A s \in Replicas : s # r => Custody(s)' = Custody(s)
  BY <1>1, <1>2, <1>4, <1>5 DEF Custody
<1>7. Custody(r) = Promise!Unmade
  BY <1>1, CustodyCases
<1>8. Custody(r)' = Promise!InPool
  BY <1>2, <1>3, <1>4, <1>5 DEF Custody, Promise!InPool
<1>9. Promise!Stock(r)
  BY <1>6, <1>7, <1>8, OneMoves DEF Promise!Stock
<1> QED BY <1>9 DEF Permitted, Promise!Next

-----------------------------------------------------------------------------
(* The refinement *)

LEMMA InitCustody == Init => Promise!Init
<1> SUFFICES ASSUME Init PROVE Promise!Init OBVIOUS
<1>1. \A r \in Replicas : Custody(r) = Promise!Unmade
  BY CustodyCases, NameTypes DEF Init, ClusterInit
<1> QED BY <1>1 DEF Promise!Init

LEMMA WriteAllowed ==
  ASSUME IInv, Write \/ Fail
  PROVE  Permitted
<1>1. TypeOK /\ rec \in Recs
  BY DEF IInv, TypeOK
<1>2. CASE LockClaim \/ PersistClaim
  <2>1. UNCHANGED pv
    BY <1>2 DEF LockClaim, PersistClaim
  <2>2. \A r \in Replicas : PoolClaim(r) # Locked /\ PoolClaim(r) # Wanted
    BY DEF PoolClaim, Locked, Wanted, LockedClaim, ClaimFor, UserClaim
  <2>3. \A r \in Replicas : uids'[PoolClaim(r)] = uids[PoolClaim(r)]
    BY <1>1, <1>2, <2>2, NameTypes DEF LockClaim, PersistClaim, SaveClaim, 
       CreateClaim, UpdateClaim, TypeOK, ClusterTypeOK
  <2>4. /\ rec'.c = rec.c
        /\ \A r \in Replicas : InFlight(r)' <=> InFlight(r)
    BY <1>1, <1>2 DEF LockClaim, PersistClaim, InFlight, Recs
  <2> QED BY <2>1, <2>3, <2>4, FlightContinues DEF ReferencesKept
<1>3. CASE LockVolume
  BY <1>3, LockVolumeAllowed
<1>4. CASE PersistVolume
  BY <1>4, PersistVolumeAllowed
<1>5. CASE InvalidClaim \/ DropClaim \/ WriteStatus \/ Fail
  <2>1. UNCHANGED <<pv, uids>>
    BY <1>5 DEF InvalidClaim, DropClaim, WriteStatus, Fail, WriteFails, 
       StatusFails, clusterVars
  <2>2. rec'.pc \in {"idle", "status"}
    <3>1. CASE InvalidClaim \/ DropClaim \/ WriteFails
      BY <1>1, <3>1 DEF InvalidClaim, DropClaim, WriteFails, Abandon, Goto, 
         Recs
    <3>2. CASE WriteStatus \/ StatusFails
      BY <3>2 DEF WriteStatus, StatusFails, Idle
    <3> QED BY <1>5, <3>1, <3>2 DEF Fail
  <2>3. rec'.pc \notin PastLock
    BY <2>2 DEF PastLock
  <2> QED BY <2>1, <2>3, FlightEnds DEF ReferencesKept
<1>6. CASE DropVolume
  <2>1. rec'.pc \notin PastLock /\ UNCHANGED uids
    BY <1>1, <1>6 DEF DropVolume, Goto, PastLock, Recs
  <2>2. ReferencesKept
    <3>1. CASE UNCHANGED pv
      BY <2>1, <3>1 DEF ReferencesKept
    <3>2. CASE ~NothingToDrop
      <4>1. /\ rec.source \in PvNames /\ Exists(pv[rec.source])
            /\ pv' = [pv EXCEPT ![rec.source] = Terminating(pv[rec.source])]
        BY <1>6, <3>2 DEF DropVolume, NothingToDrop
      <4> QED BY <1>1, <2>1, <4>1 
          DEF ReferencesKept, Terminating, Exists, Pvs, TypeOK, ClusterTypeOK
    <3> QED BY <1>6, <3>1, <3>2 DEF DropVolume
  <2> QED BY <2>1, <2>2, FlightEnds
<1> QED BY <1>2, <1>3, <1>4, <1>5, <1>6 DEF Write

LEMMA PlatformAllowed ==
  ASSUME IInv, Platform
  PROVE  Permitted
<1>1. /\ UNCHANGED <<uids, rec>>
      /\ rec'.c = rec.c /\ \A r \in Replicas : InFlight(r)' <=> InFlight(r)
  BY DEF Platform, Collect, DeleteClaim, VolumeController, Bind, LoseClaim,
     RemoveClaim, Release, Reclaim, RemoveVolume, ReclaimInSteps,
     DestroyStorage, DeleteDestroyed, ctlVars, InFlight
<1>2. CASE UNCHANGED pv
  BY <1>1, <1>2, FlightContinues DEF ReferencesKept
<1>3. ASSUME NEW v \in PvNames, NEW p \in {"Bound", "Released"},
             pv' = [pv EXCEPT ![v].phase = p]
      PROVE  Permitted
  <2>1. ReferencesKept
    BY <1>1, <1>3 DEF IInv, TypeOK, ClusterTypeOK, Pvs, ReferencesKept, Exists
  <2> QED BY <1>1, <2>1, FlightContinues
<1>4. ASSUME NEW v \in PvNames, Exists(pv[v]), pv' = [pv EXCEPT ![v] = NoPv]
      PROVE  Permitted
  BY <1>1, <1>4, SourceRemovedAllowed, CopyRemovedAllowed DEF PvNames
<1>5. ASSUME NEW n \in PvcNames, Bind(n) PROVE Permitted
  BY <1>3, <1>5 DEF Bind, CrossReferenced
<1>6. ASSUME NEW n \in PvcNames, Collect(n) \/ LoseClaim(n) \/ RemoveClaim(n)
      PROVE  Permitted
  BY <1>2, <1>6 DEF Collect, DeleteClaim, LoseClaim, RemoveClaim
<1>7. ASSUME NEW v \in PvNames, Release(v) PROVE Permitted
  BY <1>3, <1>7 DEF Release
<1>8. ASSUME NEW v \in PvNames, Reclaim(v) \/ RemoveVolume(v) PROVE Permitted
  BY <1>4, <1>8 DEF Reclaim, Reclaimable, RemoveVolume, Orphaned, Exists
<1>9. ASSUME NEW v \in PvNames, ReclaimInSteps(v) PROVE Permitted
  <2>1. CASE DestroyStorage(v)
    BY <1>2, <2>1 DEF DestroyStorage
  <2>2. CASE DeleteDestroyed(v)
    <3>1. ReferencesKept
      BY <1>1, <2>2 DEF DeleteDestroyed, IInv, TypeOK, ClusterTypeOK, Pvs, 
         ReferencesKept, Terminating, Exists
    <3> QED BY <1>1, <3>1, FlightContinues
  <2> QED BY <1>9, <2>1, <2>2 DEF ReclaimInSteps
<1> QED BY <1>5, <1>6, <1>7, <1>8, <1>9 DEF Platform, VolumeController

LEMMA CustodyStep == IInv /\ [Next]_vars => Permitted
<1> SUFFICES ASSUME IInv, [Next]_vars PROVE Permitted OBVIOUS
<1>1. ASSUME UNCHANGED <<pv, uids, rec>> PROVE Permitted
  BY <1>1, FlightContinues DEF ReferencesKept, InFlight
<1>2. ASSUME NEW c \in Checkouts, Load(c) PROVE Permitted
  <2>1. UNCHANGED <<pv, uids>> /\ rec.pc = "idle"
    BY <1>2 DEF Load, LoadMissing, LoadConflict, LoadBound, LoadLocked, 
       LoadFromPool, LoadNotAvailable, LoadPoolDoesNotExist, 
       LoadWithoutVolume, Begin, clusterVars
  <2>2. rec'.pc \notin PastLock
    <3>1. Loaded(c) \in Recs /\ Loaded(c).pc = "lockClaim"
      BY LoadedTypes DEF IInv, Loaded
    <3>2. CASE LoadMissing(c) \/ LoadConflict(c) \/ LoadBound(c)
      BY <2>1, <3>1, <3>2 DEF LoadMissing, LoadConflict, LoadBound, Idle, 
         PastLock, Recs
    <3>3. CASE LoadLocked(c)
      BY <3>1, <3>3 DEF LoadLocked, Configured, PastLock, Recs
    <3>4. CASE LoadFromPool(c)
      BY <3>1, <3>4 DEF LoadFromPool, Configured, PastLock, Recs
    <3>5. CASE LoadNotAvailable(c) \/ LoadPoolDoesNotExist(c)
      BY <3>1, <3>5 DEF LoadNotAvailable, LoadPoolDoesNotExist, 
         LoadWithoutVolume, PastLock, Recs
    <3> QED BY <1>2, <3>2, <3>3, <3>4, <3>5 DEF Load
  <2> QED BY <2>1, <2>2, FlightEnds DEF ReferencesKept
<1>3. CASE Write \/ Fail
  BY <1>3, WriteAllowed
<1>4. CASE SyncPvc \/ SyncPv
  BY <1>1, <1>4 DEF SyncPvc, SyncPv, ctlVars
<1>5. CASE Crash
  BY <1>5, FlightEnds DEF Crash, ReferencesKept, Idle, PastLock
<1>6. CASE Platform
  BY <1>6, PlatformAllowed
<1>7. CASE Environment
  <2>1. ASSUME NEW r \in Replicas, PoolStock(r) PROVE Permitted
    BY <2>1, PoolStockAllowed
  <2> QED BY <1>1, <1>7, <2>1 DEF Environment, CreatePool, PoolDiscard, 
          DeleteClaim, UserDeletesClaim, UserDeletesCheckout, 
          UserEditsCheckout, Resync, clusterVars, ctlVars
<1>8. CASE UNCHANGED vars
  BY <1>1, <1>8 DEF vars, clusterVars, ctlVars
<1> QED BY <1>2, <1>3, <1>4, <1>5, <1>6, <1>7, <1>8 DEF Next

(* The checkout controller implements Storage: each step moves one volume  *)
(* at most, out of the pool to one checkout and from there to its claim    *)
(* (checkout_state.go:205-236, 270-345).                                   *)
THEOREM ImplementsStorage == Spec => KeepsCustody
<1>1. IInv /\ [Next]_vars => [Promise!Next]_Custodies
  BY CustodyStep DEF Permitted
<1> QED BY <1>1, InitCustody, Inductive, PTL 
    DEF Spec, KeepsCustody, Promise!Spec, Custodies

=============================================================================

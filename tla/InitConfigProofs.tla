--------------------------- MODULE InitConfigProofs ---------------------------
(***************************************************************************)
(* Proofs about InitConfig: for any number of inits, configurations and    *)
(* faults, no index is reset, no configuration is lost, and an init that   *)
(* no other one meddles with is all or nothing.                            *)
(***************************************************************************)
EXTENDS InitConfig, TLAPS

USE NamesOk, NoneOk, BoundOk

\* An init makes an index only while it has the lock, so that nobody else does.
MakersHoldLock == \A p \in Inits : pc[p] \in {"restat", "create"} => lock = p

\* Who has read the configuration knows one to restore, if there was one.
KnowsPrevious ==
    \A p \in Inits :
        pc[p] \in {"write", "stat", "lock", "restat", "create", "undo"} =>
            (before # None => old[p] # None)

\* Between its own writes and reads the file is as an undisturbed init thinks.
FileAsExpected ==
    \A p \in Inits : ~disturbed[p] =>
        /\ pc[p] \in {"stat", "lock", "restat", "create", "ok", "unprinted"} =>
               config = want[p]
        /\ pc[p] = "write" => config = old[p]
        /\ pc[p] = "failed" /\ ~warned => config = old[p]

\* An index that is there stays there.
SuccessHasIndex == \A p \in Inits : pc[p] \in {"ok", "unprinted"} => db

IndInv ==
    TypeOK /\ MakersHoldLock /\ IndexIsKept /\ ConfigIsKept
    /\ KnowsPrevious /\ FileAsExpected /\ SuccessHasIndex

LEMMA Initially == Init => IndInv
<1>. SUFFICES ASSUME Init PROVE IndInv
  OBVIOUS
<1>1. TypeOK
  <2>1. force \in [Inits -> BOOLEAN] /\ disturbed \in [Inits -> BOOLEAN]
    BY Zenon DEF Init
  <2>2. faults \in 0..MaxFaults
    BY DEF Init
  <2>3. \A p \in Inits : lock # p
    BY DEF Init
  <2>. QED  BY <2>1, <2>2, <2>3 DEF Init, TypeOK, Files
<1>2. \A p \in Inits : pc[p] = "idle"
  BY DEF Init
<1>3. MakersHoldLock /\ IndexIsKept /\ SuccessHasIndex /\ KnowsPrevious /\ FileAsExpected
  BY <1>2 DEF MakersHoldLock, IndexIsKept, SuccessHasIndex, KnowsPrevious, FileAsExpected
<1>4. ConfigIsKept
  BY DEF Init, ConfigIsKept
<1>. QED  BY <1>1, <1>3, <1>4 DEF IndInv

-----------------------------------------------------------------------------

\* A fault stays within the bound.
LEMMA FaultType == TypeOK /\ Fault => faults' \in 0..MaxFaults
BY DEF TypeOK, Fault

\* Who is disturbed, after a step that writes the file.
LEMMA PutType ==
    ASSUME NEW p \in Inits, NEW c \in Files, TypeOK, Put(p, c)
    PROVE  config' \in Files /\ disturbed' \in [Inits -> BOOLEAN]
<1>1. \A q \in Inits : (disturbed[q] \/ (q # p /\ pc[q] # "idle")) \in BOOLEAN
  OBVIOUS
<1>. QED  BY <1>1 DEF Put

\* The type invariant is inductive by itself.
LEMMA TypeStep == TypeOK /\ [Next]_vars => TypeOK'
<1>. SUFFICES ASSUME TypeOK, [Next]_vars PROVE TypeOK'
  OBVIOUS
<1>. USE DEF TypeOK, Goto, ConfigUnchanged, RunUnchanged
<1>1. ASSUME NEW p \in Inits, Start(p) PROVE TypeOK'
  BY <1>1 DEF Start
<1>1r. ASSUME NEW p \in Inits, ReadConfig(p) PROVE TypeOK'
  BY <1>1r, FaultType DEF ReadConfig
<1>2. ASSUME NEW p \in Inits, WriteConfig(p) PROVE TypeOK'
  <2>1. config' \in Files /\ disturbed' \in [Inits -> BOOLEAN]
    BY <1>2, PutType DEF WriteConfig, Files
  <2>2. faults' \in 0..MaxFaults
    BY <1>2, FaultType DEF WriteConfig
  <2>. QED  BY <1>2, <2>1, <2>2 DEF WriteConfig
<1>2u. ASSUME NEW p \in Inits, Undo(p) PROVE TypeOK'
  <2>1. config' \in Files /\ disturbed' \in [Inits -> BOOLEAN]
    BY <1>2u, PutType DEF Undo, Previous
  <2>2. faults' \in 0..MaxFaults
    BY <1>2u, FaultType DEF Undo
  <2>. QED  BY <1>2u, <2>1, <2>2 DEF Undo
<1>3. ASSUME NEW p \in Inits, Stat(p) \/ Acquire(p) \/ Restat(p) PROVE TypeOK'
  BY <1>3 DEF Stat, Acquire, Restat, AfterRefusal, AfterLock
<1>4. ASSUME NEW p \in Inits, Create(p) PROVE TypeOK'
  BY <1>4 DEF Create
<1>4f. ASSUME NEW p \in Inits, StepFails(p) \/ ReportFails(p) PROVE TypeOK'
  BY <1>4f, FaultType DEF StepFails, AfterError, ReportFails
<1>5. ASSUME NEW p \in Inits, Exit(p) \/ Crash(p) PROVE TypeOK'
  <2>1. force' \in [Inits -> BOOLEAN] /\ disturbed' \in [Inits -> BOOLEAN]
    BY <1>5, Zenon DEF Exit, Crash, Forget
  <2>2. faults' \in 0..MaxFaults
    BY <1>5, FaultType DEF Exit, Crash
  <2>3. /\ pc' = [pc EXCEPT ![p] = "idle"]
        /\ lock' = IF lock = p THEN NoProc ELSE lock
        /\ old' = [old EXCEPT ![p] = None]
        /\ UNCHANGED <<config, want, db, before, warned>>
    BY <1>5 DEF Exit, Crash, Forget, Unlock
  <2>. QED  BY <2>1, <2>2, <2>3 DEF Files
<1>6. CASE BuilderLocks \/ BuilderEnds
  BY <1>6 DEF BuilderLocks, BuilderEnds
<1>7. CASE UNCHANGED vars
  BY <1>7 DEF vars
<1>. QED  BY <1>1, <1>1r, <1>2, <1>2u, <1>3, <1>4, <1>4f, <1>5, <1>6, <1>7 DEF Next

\* The lock and the index.
LEMMA IndexStep ==
    IndInv /\ [Next]_vars => (MakersHoldLock /\ IndexIsKept /\ SuccessHasIndex)'
<1>. SUFFICES ASSUME IndInv, [Next]_vars
              PROVE (MakersHoldLock /\ IndexIsKept /\ SuccessHasIndex)'
  OBVIOUS
<1>. USE DEF IndInv, TypeOK, MakersHoldLock, IndexIsKept, SuccessHasIndex, Goto
<1>1. ASSUME NEW p \in Inits, Start(p) \/ ReadConfig(p) \/ WriteConfig(p) \/ Undo(p)
      PROVE (MakersHoldLock /\ IndexIsKept /\ SuccessHasIndex)'
  BY <1>1 DEF Start, ReadConfig, WriteConfig, Undo
<1>2. ASSUME NEW p \in Inits, Stat(p) \/ Acquire(p) \/ Restat(p)
      PROVE (MakersHoldLock /\ IndexIsKept /\ SuccessHasIndex)'
  BY <1>2 DEF Stat, Acquire, Restat, AfterRefusal, AfterLock
<1>3. ASSUME NEW p \in Inits, Create(p)
      PROVE (MakersHoldLock /\ IndexIsKept /\ SuccessHasIndex)'
  BY <1>3 DEF Create
<1>4. ASSUME NEW p \in Inits, StepFails(p) \/ ReportFails(p)
      PROVE (MakersHoldLock /\ IndexIsKept /\ SuccessHasIndex)'
  BY <1>4 DEF StepFails, AfterError, ReportFails
<1>5. ASSUME NEW p \in Inits, Exit(p) \/ Crash(p)
      PROVE (MakersHoldLock /\ IndexIsKept /\ SuccessHasIndex)'
  BY <1>5 DEF Exit, Crash, Forget, Unlock
<1>6. CASE BuilderLocks \/ BuilderEnds
  BY <1>6 DEF BuilderLocks, BuilderEnds
<1>7. CASE UNCHANGED vars
  BY <1>7 DEF vars
<1>. QED  BY <1>1, <1>2, <1>3, <1>4, <1>5, <1>6, <1>7 DEF Next

\* The configuration.
LEMMA ConfigStep ==
    IndInv /\ [Next]_vars => (ConfigIsKept /\ KnowsPrevious /\ FileAsExpected)'
<1>. SUFFICES ASSUME IndInv, [Next]_vars
              PROVE (ConfigIsKept /\ KnowsPrevious /\ FileAsExpected)'
  OBVIOUS
<1>. USE DEF IndInv, TypeOK, Files, ConfigIsKept, KnowsPrevious, FileAsExpected,
             Goto, ConfigUnchanged, RunUnchanged
<1>1. ASSUME NEW p \in Inits, Start(p) \/ ReadConfig(p)
      PROVE (ConfigIsKept /\ KnowsPrevious /\ FileAsExpected)'
  BY <1>1 DEF Start, ReadConfig
<1>2. ASSUME NEW p \in Inits, WriteConfig(p)
      PROVE (ConfigIsKept /\ KnowsPrevious /\ FileAsExpected)'
  <2>1. want[p] # None
    OBVIOUS
  <2>. QED  BY <1>2, <2>1 DEF WriteConfig, Put
<1>3. ASSUME NEW p \in Inits, Undo(p)
      PROVE (ConfigIsKept /\ KnowsPrevious /\ FileAsExpected)'
  BY <1>3 DEF Undo, Put, Previous
<1>4. ASSUME NEW p \in Inits, Stat(p) \/ Acquire(p) \/ Restat(p) \/ Create(p)
                              \/ StepFails(p) \/ ReportFails(p)
      PROVE (ConfigIsKept /\ KnowsPrevious /\ FileAsExpected)'
  BY <1>4 DEF Stat, Acquire, Restat, Create, StepFails, ReportFails, AfterRefusal,
              AfterLock, AfterError
<1>5. ASSUME NEW p \in Inits, Exit(p) \/ Crash(p)
      PROVE (ConfigIsKept /\ KnowsPrevious /\ FileAsExpected)'
  BY <1>5 DEF Exit, Crash, Forget
<1>6. CASE BuilderLocks \/ BuilderEnds
  BY <1>6 DEF BuilderLocks, BuilderEnds
<1>7. CASE UNCHANGED vars
  BY <1>7 DEF vars
<1>. QED  BY <1>1, <1>2, <1>3, <1>4, <1>5, <1>6, <1>7 DEF Next

-----------------------------------------------------------------------------

(* The inductive invariant: who may make the index, what is restored, and    *)
(* what an undisturbed init may rely on.                                     *)
THEOREM Inductive == Spec => []IndInv
<1>1. IndInv /\ [Next]_vars => IndInv'
  BY TypeStep, IndexStep, ConfigStep DEF IndInv
<1>. QED  BY Initially, <1>1, PTL DEF Spec

(* Every variable has its type, however many inits run.                      *)
THEOREM TypesHold == Spec => []TypeOK
<1>1. IndInv => TypeOK
  BY DEF IndInv
<1>. QED  BY Inductive, <1>1, PTL

(* init never resets an index that a rebuild or another init made meanwhile. *)
THEOREM IndexStays == Spec => []IndexIsKept
<1>1. IndInv => IndexIsKept
  BY DEF IndInv
<1>. QED  BY Inductive, <1>1, PTL

(* A configuration that was there is never lost, whatever inits overlap,     *)
(* fail and get killed.                                                      *)
THEOREM ConfigStays == Spec => []ConfigIsKept
<1>1. IndInv => ConfigIsKept
  BY DEF IndInv
<1>. QED  BY Inductive, <1>1, PTL

(* An init whose configuration no other init changes is all or nothing, a     *)
(* failure to print its result included, which undoes nothing.               *)
THEOREM AllOrNothing == Spec => []UndisturbedIsAllOrNothing
<1>1. IndInv => UndisturbedIsAllOrNothing
  BY DEF IndInv, FileAsExpected, SuccessHasIndex, UndisturbedIsAllOrNothing
<1>. QED  BY Inductive, <1>1, PTL
===============================================================================

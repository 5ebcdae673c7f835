-------------------------- MODULE PersistenceProofs --------------------------
(* Proofs about Persistence: for any set of courts and any number of changes, *)
(* a quiet hub has saved everything, and a graceful stop and the boot after   *)
(* it lose nothing.                                                           *)
(*                                                                            *)
(* QuietMeansSaved is not inductive: the two timers write the snapshot, so    *)
(* the invariant says of each part that memory, snapshot and file agree or    *)
(* its timer runs, or that the club's reset emptied it.  A crash in between   *)
(* needs no case of its own, as the invariant asks nothing of a hub that is   *)
(* down by a crash.                                                           *)
(*                                                                            *)
(* And about ClubAdmin, what the hub keeps being what it shows: for any set   *)
(* of tabs, any bounds and any order of requests, losses and reconnections,   *)
(* an administrator's page that waits for nothing shows the courts and the    *)
(* records there are, and no phone is shown that was not put on record first. *)
(* What is settled says nothing of what is on its way, so the invariant       *)
(* speaks of the queues: the last word in each on courts and on records is    *)
(* what they are now, records follow each message that opens a dashboard, and *)
(* every phone in them is on record.                                          *)
EXTENDS Persistence, ClubAdmin, FiniteSetTheorems, WellFoundedInduction, TLAPS

Known(live) == \A c \in Courts : live[c].live => live[c].mode # "none"

HasSessions(doc) == \A c \in Courts : courts[c].live => doc.live[c] = courts[c]

(* A session has a mode wherever it is written down: what boot restores is    *)
(* then never taken for a court without an entry.                             *)
SessionsHaveModes ==
  Known(courts) /\ Known(snapshot.live) /\ Known(file.doc.live)

(* While no save of the courts is due, snapshot and file have the sessions.   *)
SessionsSaved ==
  Up /\ ~courtTimer /\ "sessions" \notin wiped =>
    HasSessions(snapshot) /\ (file.exists => HasSessions(file.doc))

(* The snapshot always has the bracket; the file has it while no save is due. *)
BracketSaved ==
  Up /\ "bracket" \notin wiped =>
    /\ snapshot.bracket = engine
    /\ ~slotTimer /\ file.exists => file.doc.bracket = engine

(* What a graceful stop left in memory is what the file says.                 *)
StopSaved == process = "stopped" => file.doc = kept

(* The inductive invariant.                                                   *)
IInv == TypeOK /\ SessionsHaveModes /\ SessionsSaved /\ BracketSaved /\ StopSaved
------------------------------------------------------------------------------
(* Nothing is what it starts from, and what a deleted file is read as.         *)
LEMMA NoneTyped ==
  /\ 0 \in Stamps
  /\ NoCourt \in Court /\ ~NoCourt.live
  /\ NoBracket \in Brackets
  BY ChangesAssumption DEF NoCourt, Court, NoBracket, Brackets, Stamps

(* Rows keeps what a flow of a court is and forgets idle courts.              *)
LEMMA RowsType ==
  ASSUME NEW cs \in [Courts -> Court]
  PROVE  /\ Rows(cs) \in [Courts -> Court]
         /\ \A c \in Courts : cs[c].live => Rows(cs)[c] = cs[c]
         /\ Known(cs) => Known(Rows(cs))
  BY ChangesAssumption DEF Rows, Court, NoCourt, Known, Stamps

(* restoreState makes courts of the rows and of the courts there are, gives   *)
(* every row of the catalog back, and every bound court that is active an     *)
(* entry.                                                                     *)
LEMMA RestoredType ==
  ASSUME NEW cs \in [Courts -> Court], NEW doc \in Documents, NEW b \in Brackets,
         Known(cs), Known(doc.live)
  PROVE  /\ Restored(cs, doc, b) \in [Courts -> Court]
         /\ Known(Restored(cs, doc, b))
         /\ \A c \in catalog \cap Courts : doc.live[c].live => Restored(cs, doc, b)[c] = doc.live[c]
         /\ \A c \in b.bound \cap active \cap Courts : Restored(cs, doc, b)[c].mode # "none"
<1> DEFINE rows == RestoredRows(cs, doc)
          idle == [NoCourt EXCEPT !.mode = "tournament"]
<1>1. idle \in Court /\ ~idle.live /\ idle.mode # "none"
  BY NoneTyped DEF Court, NoCourt
<1>2. rows \in [Courts -> Court]
  BY DEF RestoredRows, Documents
<1>3. \A c \in Courts : rows[c] = IF doc.live[c].live /\ c \in catalog THEN doc.live[c] ELSE cs[c]
  BY DEF RestoredRows
<1>4. \A c \in Courts : Restored(cs, doc, b)[c] =
        IF c \in b.bound \cap active /\ rows[c].mode = "none" THEN idle ELSE rows[c]
  BY DEF Restored
<1>5. Restored(cs, doc, b) \in [Courts -> Court]
  <2>1. Restored(cs, doc, b) = [c \in Courts |-> Restored(cs, doc, b)[c]]
    BY Zenon DEF Restored
  <2> QED  BY <1>1, <1>2, <1>4, <2>1
<1>6. Known(rows)
  BY <1>3, Zenon DEF Known
<1> HIDE DEF rows, idle
<1>7. Known(Restored(cs, doc, b))
  BY <1>1, <1>4, <1>6, Zenon DEF Known
<1>8. \A c \in catalog \cap Courts : doc.live[c].live => Restored(cs, doc, b)[c] = doc.live[c]
  BY <1>3, <1>4, Zenon DEF Known
<1>9. \A c \in b.bound \cap active \cap Courts : Restored(cs, doc, b)[c].mode # "none"
  BY <1>1, <1>4
<1> QED  BY <1>5, <1>7, <1>8, <1>9

(* A release of bound courts starts no session, and sets the timer whenever   *)
(* it ends one.                                                               *)
LEMMA ReleasedType ==
  ASSUME TypeOK, Known(courts), Now \in Stamps
  PROVE  /\ Released \in [Courts -> Court] /\ Known(Released)
         /\ ReleaseNotifies \in BOOLEAN
         /\ ~ReleaseNotifies => ~courtTimer /\ Released = courts
<1> DEFINE over(c) == [courts[c] EXCEPT !.live = FALSE, !.stamp = Now]
<1>1. courts \in [Courts -> Court] /\ engine.bound \subseteq Courts /\ courtTimer \in BOOLEAN
  BY DEF TypeOK, Brackets
<1>2. \A c \in Courts : over(c) \in Court /\ ~over(c).live
  BY <1>1 DEF Court
<1> HIDE DEF over
<1>3. Released = [c \in Courts |-> IF c \in engine.bound /\ courts[c].mode = "tournament"
                                    THEN over(c) ELSE courts[c]]
  BY DEF Released, over
<1>4. Released \in [Courts -> Court]
  BY ONLY <1>1, <1>2, <1>3
<1>5. Known(Released)
  BY ONLY <1>1, <1>2, <1>3, Known(courts) DEF Known
<1>6. ReleaseNotifies \in BOOLEAN
  BY <1>1 DEF ReleaseNotifies
<1>7. ASSUME ~ReleaseNotifies
      PROVE  ~courtTimer /\ Released = courts
  <2>1. ~courtTimer /\ \A c \in engine.bound : courts[c].mode = "none"
    BY <1>7 DEF ReleaseNotifies
  <2>2. Released = [c \in Courts |-> courts[c]]
    BY <1>3, <2>1
  <2> QED  BY ONLY <1>1, <2>1, <2>2
<1> QED  BY <1>4, <1>5, <1>6, <1>7

LEMMA InitCorrect == Init => IInv
<1> SUFFICES ASSUME Init PROVE IInv
  OBVIOUS
<1>1. EmptyDocument \in Documents /\ Known(EmptyDocument.live)
  BY NoneTyped DEF EmptyDocument, Documents, Known
<1>2. file \in [exists: BOOLEAN, doc: Documents] /\ Known(file.doc.live)
  BY <1>1 DEF Init, NoFile
<1>3. TypeOK
  BY <1>1, <1>2, NoneTyped DEF Init, TypeOK
<1>4. SessionsHaveModes
  BY <1>1, <1>2, NoneTyped DEF Init, SessionsHaveModes, Known
<1>5. SessionsSaved /\ BracketSaved /\ StopSaved
  BY DEF Init, SessionsSaved, BracketSaved, StopSaved, HasSessions, NoCourt, NoFile, EmptyDocument
<1> QED  BY <1>3, <1>4, <1>5 DEF IInv
------------------------------------------------------------------------------
(* The courts' operations: every change sets the timer or is written at once. *)

(* A stamp is given while there are any left, by a hub that is up.             *)
LEMMA NowIsStamp ==
  ASSUME IInv, Stamp
  PROVE  Now \in Stamps /\ changes' = Now /\ process = "up"
  BY ChangesAssumption DEF IInv, TypeOK, Stamp, Now, Stamps, Up

LEMMA CourtChangesStep ==
  ASSUME IInv, NEW c \in Courts, CourtChanges(c)
  PROVE  IInv'
<1> USE DEF CourtChanges, NotifyCourts
<1>1. Now \in Stamps
  BY NowIsStamp DEF CourtChanges
<1>2. PICK mode \in {"club", "tournament"}, live \in BOOLEAN :
        courts' = [courts EXCEPT ![c] = [mode |-> mode, live |-> live, stamp |-> Now]]
  OBVIOUS
<1>3. TypeOK'
  BY <1>1, <1>2 DEF IInv, TypeOK, Stamp, Court
<1>4. SessionsHaveModes'
  BY <1>2 DEF IInv, TypeOK, SessionsHaveModes, Known
<1>5. SessionsSaved' /\ BracketSaved' /\ StopSaved'
  BY DEF IInv, SessionsSaved, BracketSaved, StopSaved, Up, Stamp
<1> QED  BY <1>3, <1>4, <1>5 DEF IInv

(* Writing the courts at once leaves nothing to do.                           *)
LEMMA PersistCourtsSaves ==
  ASSUME IInv, courts' \in [Courts -> Court], Known(courts'), PersistCourts
  PROVE  /\ snapshot' \in Documents /\ snapshot'.live = Rows(courts')
         /\ snapshot'.bracket = snapshot.bracket
         /\ file' = [exists |-> TRUE, doc |-> snapshot']
         /\ file' \in [exists: BOOLEAN, doc: Documents]
         /\ Known(snapshot'.live) /\ HasSessions(snapshot)'
  BY RowsType DEF PersistCourts, Flush, FileOf, IInv, TypeOK, Documents, HasSessions

LEMMA NewPinStep ==
  ASSUME IInv, NEW c \in Courts, NewPin(c)
  PROVE  IInv'
<1> USE DEF NewPin, FlushCourts
<1>1. Now \in Stamps /\ changes' = Now
  BY NowIsStamp
<1>2. Ensured(c, "tournament") \in Court /\ (Ensured(c, "tournament").live => Ensured(c, "tournament").mode # "none")
  BY NoneTyped DEF IInv, TypeOK, SessionsHaveModes, Known, Ensured, Court
<1>3. courts' \in [Courts -> Court] /\ Known(courts')
  BY <1>1, <1>2 DEF IInv, TypeOK, SessionsHaveModes, Known, Court
<1>4. PersistCourts
  OBVIOUS
<1>5. TypeOK'
  BY <1>1, <1>3, <1>4, PersistCourtsSaves DEF IInv, TypeOK
<1>6. SessionsHaveModes'
  BY <1>3, <1>4, PersistCourtsSaves DEF SessionsHaveModes
<1>7. SessionsSaved'
  BY <1>3, <1>4, PersistCourtsSaves DEF SessionsSaved
<1>8. BracketSaved' /\ StopSaved'
  BY <1>3, <1>4, PersistCourtsSaves DEF IInv, BracketSaved, StopSaved, Up, Stamp
<1> QED  BY <1>5, <1>6, <1>7, <1>8 DEF IInv

LEMMA InventoryAddStep ==
  ASSUME IInv, NEW c \in Courts, InventoryAdd(c)
  PROVE  IInv'
<1> USE DEF InventoryAdd, memory, historyVars
<1>1. TypeOK'
  BY DEF IInv, TypeOK
<1>2. SessionsHaveModes' /\ SessionsSaved' /\ BracketSaved' /\ StopSaved'
  BY DEF IInv, SessionsHaveModes, SessionsSaved, BracketSaved, StopSaved, HasSessions, Up
<1> QED  BY <1>1, <1>2 DEF IInv

LEMMA InventoryStatusStep ==
  ASSUME IInv, NEW c \in Courts, InventoryStatus(c)
  PROVE  IInv'
<1> USE DEF InventoryStatus, memory, historyVars
<1>1. TypeOK'
  BY DEF IInv, TypeOK
<1>2. SessionsHaveModes' /\ SessionsSaved' /\ BracketSaved' /\ StopSaved'
  BY DEF IInv, SessionsHaveModes, SessionsSaved, BracketSaved, StopSaved, HasSessions, Up
<1> QED  BY <1>1, <1>2 DEF IInv

LEMMA CourtTimerStep ==
  ASSUME IInv, CourtTimerFires
  PROVE  IInv'
<1> USE DEF CourtTimerFires, FlushCourts
<1>1. courts' \in [Courts -> Court] /\ Known(courts') /\ PersistCourts
  BY DEF IInv, TypeOK, SessionsHaveModes
<1>2. TypeOK'
  BY <1>1, PersistCourtsSaves DEF IInv, TypeOK
<1>3. SessionsHaveModes' /\ SessionsSaved'
  BY <1>1, PersistCourtsSaves DEF SessionsHaveModes, SessionsSaved
<1>4. BracketSaved' /\ StopSaved'
  BY <1>1, PersistCourtsSaves DEF IInv, BracketSaved, StopSaved, Up
<1> QED  BY <1>2, <1>3, <1>4 DEF IInv
------------------------------------------------------------------------------
(* The bracket's operations.  They touch the courts only together with the    *)
(* courts' timer, and the saved sessions never.                               *)

(* What all of them leave in order.                                           *)
BracketOperation ==
  /\ Stamp
  /\ engine' \in Brackets /\ slotTimer' \in BOOLEAN
  /\ courts' \in [Courts -> Court] /\ Known(courts') /\ courtTimer' \in BOOLEAN
  /\ ~courtTimer' => ~courtTimer /\ courts' = courts
  /\ wiped' \subseteq wiped /\ "bracket" \notin wiped'
  /\ "sessions" \in wiped \ wiped' => courtTimer'
  /\ SetBracket
  /\ UNCHANGED <<process, catalog, active, fresh, finished, kept>>

LEMMA SetBracketKeepsSessions ==
  ASSUME IInv, BracketOperation
  PROVE  /\ snapshot' \in Documents /\ snapshot'.live = snapshot.live
         /\ snapshot'.bracket = engine'
         /\ process' = "up" /\ changes' \in Stamps
  BY NowIsStamp DEF BracketOperation, SetBracket, IInv, TypeOK, Documents

LEMMA SavedLater ==
  ASSUME IInv, BracketOperation, SaveBracketLater
  PROVE  IInv'
<1> USE SetBracketKeepsSessions
<1>1. file' = file /\ slotTimer'
  BY DEF SaveBracketLater
<1>2. TypeOK'
  BY <1>1 DEF IInv, TypeOK, BracketOperation
<1>3. SessionsHaveModes'
  BY <1>1 DEF IInv, SessionsHaveModes, BracketOperation
<1>4. SessionsSaved'
  BY <1>1 DEF IInv, SessionsSaved, HasSessions, BracketOperation, Stamp, Up
<1>5. BracketSaved' /\ StopSaved'
  BY <1>1 DEF BracketSaved, StopSaved
<1> QED  BY <1>2, <1>3, <1>4, <1>5 DEF IInv

LEMMA SavedNow ==
  ASSUME IInv, BracketOperation, Flush
  PROVE  IInv'
<1> USE SetBracketKeepsSessions
<1>1. file' = [exists |-> TRUE, doc |-> snapshot']
  BY DEF Flush, FileOf
<1>2. TypeOK'
  BY <1>1 DEF IInv, TypeOK, BracketOperation
<1>3. SessionsHaveModes'
  BY <1>1 DEF IInv, SessionsHaveModes, BracketOperation
<1>4. SessionsSaved'
  BY <1>1 DEF IInv, SessionsSaved, HasSessions, BracketOperation, Stamp, Up
<1>5. BracketSaved' /\ StopSaved'
  BY <1>1 DEF BracketSaved, StopSaved
<1> QED  BY <1>2, <1>3, <1>4, <1>5 DEF IInv

LEMMA BracketCreateStep ==
  ASSUME IInv, BracketCreate
  PROVE  IInv'
<1>1. BracketOperation
  BY NowIsStamp DEF BracketCreate, BracketOperation, IInv, TypeOK, SessionsHaveModes,
                    SaveBracketNow, Brackets
<1> QED  BY <1>1, SavedNow DEF BracketCreate, SaveBracketNow

LEMMA BracketEditStep ==
  ASSUME IInv, BracketEdit
  PROVE  IInv'
<1>1. BracketOperation
  BY NowIsStamp DEF BracketEdit, BracketOperation, IInv, TypeOK, SessionsHaveModes,
                    SaveBracketLater, Brackets
<1> QED  BY <1>1, SavedLater DEF BracketEdit

LEMMA BracketAssignCourtStep ==
  ASSUME IInv, NEW c \in Courts, BracketAssignCourt(c)
  PROVE  IInv'
<1>1. BracketOperation
  BY NowIsStamp DEF BracketAssignCourt, BracketOperation, IInv, TypeOK, SessionsHaveModes,
                    SaveBracketLater, Brackets
<1> QED  BY <1>1, SavedLater DEF BracketAssignCourt

LEMMA BracketSelectStep ==
  ASSUME IInv, NEW c \in Courts, BracketSelect(c)
  PROVE  IInv'
<1> USE DEF BracketSelect
<1>1. engine' \in Brackets
  BY NowIsStamp DEF IInv, TypeOK, Brackets
<1>2. /\ Ensured(c, "tournament") \in Court /\ ~Ensured(c, "tournament").live
      /\ courts[c].mode # "none" => Ensured(c, "tournament") = courts[c]
  BY NoneTyped DEF IInv, TypeOK, Ensured, Court
<1>3. courts' \in [Courts -> Court] /\ Known(courts')
  BY <1>2 DEF IInv, TypeOK, SessionsHaveModes, Known
<1>4. ~courtTimer' => ~courtTimer /\ courts' = courts
  BY <1>2 DEF IInv, TypeOK
<1>5. BracketOperation
  BY <1>1, <1>3, <1>4 DEF BracketOperation, SaveBracketLater, IInv, TypeOK
<1> QED  BY <1>5, SavedLater

LEMMA ForceEndStep ==
  ASSUME IInv, NEW c \in Courts, ForceEnd(c)
  PROVE  IInv'
<1> USE DEF ForceEnd
<1>1. engine' \in Brackets
  BY NowIsStamp DEF IInv, TypeOK, Brackets
<1>2. courts' \in [Courts -> Court] /\ Known(courts')
  <2> DEFINE over == [courts[c] EXCEPT !.live = FALSE, !.stamp = Now]
  <2>1. courts \in [Courts -> Court] /\ Now \in Stamps /\ Known(courts)
    BY NowIsStamp DEF IInv, TypeOK, SessionsHaveModes
  <2>2. over \in Court /\ ~over.live
    BY <2>1 DEF Court
  <2>3. courts' = [courts EXCEPT ![c] = over]
    BY <2>1
  <2> HIDE DEF over
  <2>4. courts' \in [Courts -> Court]
    BY ONLY <2>1, <2>2, <2>3
  <2>5. Known(courts')
    BY ONLY <2>1, <2>2, <2>3 DEF Known
  <2> QED  BY <2>4, <2>5
<1>3. BracketOperation
  BY <1>1, <1>2 DEF BracketOperation, SaveBracketLater
<1> QED  BY <1>3, SavedLater

LEMMA BracketResultStep ==
  ASSUME IInv, BracketResult
  PROVE  IInv'
<1>1. BracketOperation
  BY NowIsStamp DEF BracketResult, BracketOperation, IInv, TypeOK, SessionsHaveModes,
                    SaveBracketNow, Brackets
<1> QED  BY <1>1, SavedNow DEF BracketResult, SaveBracketNow

LEMMA BracketCompletedStep ==
  ASSUME IInv, BracketCompleted
  PROVE  IInv'
<1> USE DEF BracketCompleted, SaveBracketNow
<1>1. engine' \in Brackets
  BY NowIsStamp DEF Brackets
<1>2. BracketOperation
  BY <1>1, NowIsStamp, ReleasedType DEF BracketOperation, IInv, SessionsHaveModes
<1> QED  BY <1>2, SavedNow

LEMMA BracketResetStep ==
  ASSUME IInv, BracketReset
  PROVE  IInv'
<1> USE DEF BracketReset
<1>1. engine' \in Brackets /\ slotTimer' \in BOOLEAN
  BY ChangesAssumption DEF NoBracket, Brackets, Stamps, IInv, TypeOK
<1>2. BracketOperation
  BY <1>1, NowIsStamp, ReleasedType DEF BracketOperation, IInv, SessionsHaveModes
<1> QED  BY <1>2, SavedNow
------------------------------------------------------------------------------
(* The bracket's timer, stop, crash and boot.                                 *)

LEMMA SlotTimerStep ==
  ASSUME IInv, SlotTimerFires
  PROVE  IInv'
<1> USE DEF SlotTimerFires, FileOf, historyVars
<1>1. TypeOK'
  BY DEF IInv, TypeOK
<1>2. SessionsHaveModes'
  BY DEF IInv, SessionsHaveModes
<1>3. SessionsSaved'
  BY DEF IInv, SessionsSaved, HasSessions, Up
<1>4. BracketSaved' /\ StopSaved'
  BY DEF IInv, BracketSaved, StopSaved, Up
<1> QED  BY <1>1, <1>2, <1>3, <1>4 DEF IInv

LEMMA StopStep ==
  ASSUME IInv, Stop
  PROVE  IInv'
<1> USE DEF Stop, FlushCourts
<1>1. courts' \in [Courts -> Court] /\ Known(courts') /\ PersistCourts
  BY DEF IInv, TypeOK, SessionsHaveModes
<1>2. kept' = snapshot'
  BY <1>1, PersistCourtsSaves DEF Documents
<1>3. TypeOK'
  BY <1>1, <1>2, PersistCourtsSaves DEF IInv, TypeOK
<1>4. SessionsHaveModes'
  BY <1>1, PersistCourtsSaves DEF SessionsHaveModes
<1>5. SessionsSaved' /\ BracketSaved' /\ StopSaved'
  BY <1>1, <1>2, PersistCourtsSaves DEF SessionsSaved, BracketSaved, StopSaved, Up
<1> QED  BY <1>3, <1>4, <1>5 DEF IInv

LEMMA CrashStep ==
  ASSUME IInv, Crash
  PROVE  IInv'
<1> USE DEF Crash, disk, historyVars
<1>1. TypeOK' /\ SessionsHaveModes'
  BY DEF IInv, TypeOK, SessionsHaveModes
<1>2. SessionsSaved' /\ BracketSaved' /\ StopSaved'
  BY DEF SessionsSaved, BracketSaved, StopSaved, Up
<1> QED  BY <1>1, <1>2 DEF IInv

(* A booting hub has no entry before it reads the file.                       *)
LEMMA NoCourts ==
  [c \in Courts |-> NoCourt] \in [Courts -> Court] /\ Known([c \in Courts |-> NoCourt])
  BY NoneTyped DEF Known

LEMMA BootStep ==
  ASSUME IInv, Boot
  PROVE  IInv'
<1> USE DEF Boot, Loaded, disk
<1> DEFINE none == [c \in Courts |-> NoCourt]
<1>1. file.doc \in Documents /\ file.doc.bracket \in Brackets /\ Known(file.doc.live)
  BY DEF IInv, TypeOK, SessionsHaveModes, Documents
<1>2. courts' \in [Courts -> Court] /\ Known(courts')
  <2> HIDE DEF none
  <2> courts' = Restored(none, file.doc, file.doc.bracket)
    BY DEF none
  <2> none \in [Courts -> Court] /\ Known(none)
    BY NoCourts DEF none
  <2> QED  BY <1>1, RestoredType
<1>3. TypeOK'
  BY <1>1, <1>2 DEF IInv, TypeOK
<1>4. SessionsHaveModes'
  BY <1>1, <1>2 DEF SessionsHaveModes
<1>5. SessionsSaved'
  BY <1>2 DEF SessionsSaved, HasSessions, Known
<1>6. BracketSaved' /\ StopSaved'
  BY DEF BracketSaved, StopSaved
<1> QED  BY <1>3, <1>4, <1>5, <1>6 DEF IInv
------------------------------------------------------------------------------
(* The routes and the club's reset.                                           *)

LEMMA LoadRouteStep ==
  ASSUME IInv, LoadRoute
  PROVE  IInv'
<1> USE DEF LoadRoute, Loaded, disk, historyVars
<1>1. courts' \in [Courts -> Court] /\ Known(courts')
  <2>1. /\ courts \in [Courts -> Court] /\ Known(courts)
        /\ file.doc \in Documents /\ snapshot.bracket \in Brackets /\ Known(file.doc.live)
    BY DEF IInv, TypeOK, SessionsHaveModes, Documents
  <2> QED  BY <2>1, RestoredType
<1>2. courtTimer' \in BOOLEAN /\ (~courtTimer' => ~courtTimer /\ courts' = courts)
  BY DEF IInv, TypeOK
<1>3. TypeOK'
  BY <1>1, <1>2 DEF IInv, TypeOK
<1>4. SessionsHaveModes'
  BY <1>1 DEF IInv, SessionsHaveModes
<1>5. SessionsSaved'
  BY <1>2 DEF IInv, SessionsSaved, HasSessions, Up
<1>6. BracketSaved' /\ StopSaved'
  BY DEF IInv, BracketSaved, StopSaved, Up
<1> QED  BY <1>3, <1>4, <1>5, <1>6 DEF IInv

LEMMA NoFileType == NoFile.doc \in Documents /\ Known(NoFile.doc.live) /\ NoFile.exists = FALSE
                    /\ NoFile = [exists |-> FALSE, doc |-> EmptyDocument]
                    /\ EmptyDocument \in Documents /\ Known(EmptyDocument.live)
  BY NoCourts, ChangesAssumption
     DEF NoFile, EmptyDocument, Documents, NoBracket, Brackets, Stamps

LEMMA NewRouteStep ==
  ASSUME IInv, NewRoute
  PROVE  IInv'
<1> USE NoFileType DEF NewRoute, memory, historyVars
<1>1. TypeOK' /\ SessionsHaveModes'
  BY DEF IInv, TypeOK, SessionsHaveModes
<1>2. SessionsSaved' /\ BracketSaved' /\ StopSaved'
  BY DEF IInv, SessionsSaved, BracketSaved, StopSaved, HasSessions, Up
<1> QED  BY <1>1, <1>2 DEF IInv

(* What is finished has no session, so that the ones that stay are as saved.  *)
LEMMA FinishRouteStep ==
  ASSUME IInv, FinishRoute
  PROVE  IInv'
<1> USE NoFileType DEF FinishRoute
<1>1. Now \in Stamps /\ changes' \in Stamps /\ process' = "up"
  BY NowIsStamp
<1>2. engine' \in Brackets /\ (engine.bound = {} => engine' = engine)
  BY <1>1 DEF IInv, TypeOK, Brackets
<1>3. /\ courts' \in [Courts -> Court]
      /\ \A c \in Courts : courts'[c].live => courts'[c] = courts[c]
  BY ChangesAssumption DEF FinishTournament, IInv, TypeOK, NoCourt, Court, Stamps
<1>4. Known(courts')
  BY <1>3 DEF IInv, SessionsHaveModes, Known
<1>5. courtTimer' \in BOOLEAN /\ (~courtTimer' => ~courtTimer)
  BY DEF ReleaseNotifies, IInv, TypeOK
<1>6. snapshot' \in Documents /\ snapshot'.live = snapshot.live
  BY <1>2 DEF IInv, TypeOK, Documents
<1>7. slotTimer' \in BOOLEAN /\ wiped' \subseteq wiped
      /\ ("sessions" \in wiped => "sessions" \in wiped')
  BY DEF IInv, TypeOK
<1>8. finished' \subseteq Stamps
  BY DEF IInv, TypeOK, Court
<1>9. TypeOK'
  BY <1>1, <1>2, <1>3, <1>5, <1>6, <1>7, <1>8 DEF IInv, TypeOK
<1>10. SessionsHaveModes'
  BY <1>4, <1>6 DEF IInv, SessionsHaveModes
<1>11. SessionsSaved'
  BY <1>1, <1>3, <1>5, <1>6, <1>7 DEF IInv, SessionsSaved, HasSessions, Stamp, Up
<1>12. BracketSaved'
  <2>1. CASE engine.bound = {}
    BY <1>1, <2>1 DEF IInv, BracketSaved, Stamp, Up
  <2>2. CASE engine.bound # {}
    BY <1>1, <2>2 DEF IInv, TypeOK, BracketSaved, Documents
  <2> QED  BY <2>1, <2>2
<1>13. StopSaved'
  BY <1>1 DEF StopSaved
<1> QED  BY <1>9, <1>10, <1>11, <1>12, <1>13 DEF IInv

LEMMA ClubResetSetupStep ==
  ASSUME IInv, ClubResetSetup
  PROVE  IInv'
<1> USE NoFileType DEF ClubResetSetup, FileOf
<1>1. TypeOK' /\ SessionsHaveModes'
  BY DEF IInv, TypeOK, SessionsHaveModes
<1>2. SessionsSaved' /\ BracketSaved' /\ StopSaved'
  BY DEF SessionsSaved, BracketSaved, StopSaved, Up
<1> QED  BY <1>1, <1>2 DEF IInv
------------------------------------------------------------------------------
LEMMA NextKeeps == IInv /\ [Next]_vars => IInv'
<1> SUFFICES ASSUME IInv, [Next]_vars PROVE IInv'
  OBVIOUS
<1>1. ASSUME NEW c \in Courts,
             \/ CourtChanges(c) \/ NewPin(c) \/ InventoryAdd(c) \/ InventoryStatus(c)
             \/ BracketAssignCourt(c) \/ BracketSelect(c) \/ ForceEnd(c)
      PROVE  IInv'
  BY <1>1, CourtChangesStep, NewPinStep, InventoryAddStep, InventoryStatusStep,
     BracketAssignCourtStep, BracketSelectStep, ForceEndStep
<1>2. CASE BracketCreate \/ BracketEdit \/ BracketResult \/ BracketCompleted \/ BracketReset
  BY <1>2, BracketCreateStep, BracketEditStep, BracketResultStep, BracketCompletedStep,
     BracketResetStep
<1>3. CASE CourtTimerFires \/ SlotTimerFires
  BY <1>3, CourtTimerStep, SlotTimerStep
<1>4. CASE Stop \/ Crash \/ Boot
  BY <1>4, StopStep, CrashStep, BootStep
<1>5. CASE TournamentRouter \/ ClubResetSetup
  BY <1>5, LoadRouteStep, NewRouteStep, FinishRouteStep, ClubResetSetupStep DEF TournamentRouter
<1>6. CASE UNCHANGED vars
  <2> USE <1>6 DEF vars, memory, disk, historyVars
  <2>1. TypeOK' /\ SessionsHaveModes'
    BY DEF IInv, TypeOK, SessionsHaveModes
  <2>2. SessionsSaved' /\ BracketSaved' /\ StopSaved'
    BY DEF IInv, SessionsSaved, BracketSaved, StopSaved, HasSessions, Up
  <2> QED  BY <2>1, <2>2 DEF IInv
<1> QED  BY <1>1, <1>2, <1>3, <1>4, <1>5, <1>6 DEF Next

LEMMA Invariance == Spec => []IInv
  BY InitCorrect, NextKeeps, PTL DEF Spec

(* Memory, the snapshot and the file keep their shape, whatever is loaded     *)
(* into them, and no more than MaxChanges stamps are given.                   *)
THEOREM PersistenceTypeCorrect == Spec => []TypeOK
<1>1. IInv => TypeOK
  BY DEF IInv
<1> QED  BY <1>1, Invariance, PTL

(* When no timer of the hub is pending, the file has every session and the    *)
(* bracket, unless a route deleted it or the club's reset emptied it: so a    *)
(* crash of a quiet hub loses nothing.                                        *)
THEOREM QuietHubHasSaved == Spec => []QuietMeansSaved
<1>1. IInv => QuietMeansSaved
  BY DEF IInv, SessionsSaved, BracketSaved, HasSessions, QuietMeansSaved, SavedSession
<1> QED  BY <1>1, Invariance, PTL

(* A stop on SIGTERM and the next boot keep every session of the catalog's    *)
(* courts, the bracket and an entry for each court it is bound to that is     *)
(* ACTIVE (restoreState, ensureRuntimeTournamentCourt); no boot brings back a *)
(* court the catalog does not have.                                           *)
THEOREM StopAndBootKeep == Spec => StopThenBootKeeps
<1> DEFINE Keeps ==
      ~Up /\ process' = "up" =>
       /\ process = "stopped" =>
            /\ \A c \in catalog : kept.live[c].live => courts'[c] = kept.live[c]
            /\ engine' = kept.bracket
            /\ \A c \in engine'.bound \cap active : courts'[c].mode # "none"
       /\ \A c \in Courts : courts'[c].mode # "none" => c \in catalog
<1>1. ASSUME IInv, Boot PROVE Keeps
  <2> DEFINE none == [c \in Courts |-> NoCourt]
  <2>1. /\ catalog \subseteq Courts /\ active \subseteq Courts /\ file.doc \in Documents
        /\ file.doc.bracket \in Brackets /\ Known(file.doc.live)
    BY <1>1 DEF IInv, TypeOK, SessionsHaveModes, Documents
  <2>2. courts' = Restored(none, file.doc, file.doc.bracket) /\ engine' = file.doc.bracket
    BY <1>1 DEF Boot, Loaded
  <2>3. \A c \in Courts : courts'[c].mode # "none" => c \in catalog
    BY <1>1, <2>2 DEF Restored, RestoredRows, NoCourt, IInv, TypeOK
  <2>4. /\ \A c \in catalog : file.doc.live[c].live => courts'[c] = file.doc.live[c]
        /\ \A c \in engine'.bound \cap active : courts'[c].mode # "none"
    <3> HIDE DEF none
    <3> none \in [Courts -> Court] /\ Known(none)
      BY NoCourts DEF none
    <3> QED  BY <2>1, <2>2, RestoredType
  <2> QED  BY <1>1, <2>2, <2>3, <2>4 DEF IInv, StopSaved
<1>2. ASSUME IInv, [Next]_vars PROVE Keeps
  <2>1. CASE Boot
    BY <1>1, <1>2, <2>1
  <2>2. CASE ~Boot
    BY <1>2, <2>2
       DEF Next, vars, Up, Stamp, CourtChanges, NewPin, InventoryAdd, InventoryStatus,
           BracketAssignCourt, BracketSelect, ForceEnd, BracketCreate, BracketEdit, BracketResult, BracketCompleted,
           BracketReset, CourtTimerFires, SlotTimerFires, Stop, Crash, TournamentRouter,
           LoadRoute, NewRoute, FinishRoute, ClubResetSetup
  <2> QED  BY <2>1, <2>2
<1>3. IInv /\ [Next]_vars => [Keeps]_vars
  BY <1>2
<1> QED  BY <1>3, Invariance, PTL DEF Spec, StopThenBootKeeps
------------------------------------------------------------------------------
(* The administration.                                                        *)

(* Messages by what they mean here: that a page becomes a dashboard; that     *)
(* nothing is told of courts or records.                                      *)
Entry == {"CLUB_SESSION_RESTORED", "CLUB_ADMIN_VERIFIED"}
Quiet == {"ERROR", "CLUB_KIOSK_DATA", "CLUB_SETUP_COMPLETE", "CLUB_SETUP_RESET"}

(* Well-formed queues.                                                        *)
Asked == {"GET", "CLUB_VERIFY_ADMIN", "CLUB_SETUP", "CLUB_RESET_SETUP", "CLUB_CLEAR_HISTORY",
          "CLUB_CLEAR_HISTORY_CONFIRM", "CLUB_REVEAL_PHONE", "INVENTORY_ADD", "INVENTORY_MAINTENANCE",
          "INVENTORY_ARCHIVE", "INVENTORY_FORCE_END", "CLUB_ADMIN_OCCUPY", "CLUB_RESET_COURT"}
Told == Entry \cup Quiet \cup {"CLUB_SESSION_HISTORY", "INVENTORY_UPDATED", "CLUB_REVEAL_PHONE_RESULT"}

Req == [type: Asked, court: Nat, record: Nat, good: BOOLEAN, on: BOOLEAN]
Ev == [type: Told, catalog: Seq(CourtRecord), sessions: Seq(Record), ok: BOOLEAN, phone: Nat]

Queued ==
  /\ toHub \in [Tabs -> Seq(Req)] /\ toTab \in [Tabs -> Seq(Ev)]
  /\ drawn \in [court: Nat, record: Nat, key: Nat]

(* What queues are asked: whether they hold a type, which is the last of it,  *)
(* and whether the last word on courts and on records is what they are now.   *)
None(q, type) == \A i \in DOMAIN q : q[i].type # type

LastOf(q, type, i) ==
  i \in DOMAIN q /\ q[i].type = type /\ \A j \in DOMAIN q : j > i => q[j].type # type

CatalogAt(q, now) == \A i : LastOf(q, "INVENTORY_UPDATED", i) => q[i].catalog = now
RecordsAt(q, now) == \A i : LastOf(q, "CLUB_SESSION_HISTORY", i) => q[i].sessions = now

(* Records follow every entry.                                                *)
Followed(q) ==
  \A i \in DOMAIN q : q[i].type \in Entry =>
    \E j \in DOMAIN q : j > i /\ q[j].type = "CLUB_SESSION_HISTORY"

(* What the connection of a tab is: nothing is under way on one that is lost. *)
UpIsLive == \A t \in Tabs : ~tab[t].up => toHub[t] = <<>> /\ toTab[t] = <<>>

(* Entries and records are on their way to administrators only.               *)
Entitled ==
  \A t \in Tabs : \A i \in DOMAIN toTab[t] :
    toTab[t][i].type \in Entry \cup {"CLUB_SESSION_HISTORY"} => t \in role

(* A dashboard is shown to administrators only.                               *)
DashboardNeedsRole == \A t \in Tabs : tab[t].isAdmin => t \in role /\ tab[t].page = "admin"

(* A page that becomes a dashboard has the records to come.                   *)
HistoryFollows == \A t \in Tabs : Followed(toTab[t])

(* The courts last told are those there are; a page with none to come shows   *)
(* them or has asked.                                                         *)
CatalogInOrder ==
  \A t \in Tabs :
    /\ CatalogAt(toTab[t], inventory)
    /\ tab[t].up /\ tab[t].page = "admin" /\ None(toHub[t], "GET") /\ None(toTab[t], "INVENTORY_UPDATED")
       => tab[t].catalog = inventory

(* So are the records, unless a clear could not be written.                   *)
RecordsInOrder ==
  "history" \notin failed =>
    \A t \in Tabs :
      /\ RecordsAt(toTab[t], history)
      /\ tab[t].isAdmin /\ None(toTab[t], "CLUB_SESSION_HISTORY") => tab[t].sessions = history

(* The inductive invariant of the administration.                             *)
AdminInv ==
  /\ AdminTypeOK /\ Queued /\ UpIsLive /\ Entitled /\ DashboardNeedsRole /\ HistoryFollows
  /\ CatalogInOrder /\ RecordsInOrder /\ RevealsAreLogged

(* An empty queue asks for nothing.                                           *)
LEMMA EmptyQueue ==
  /\ <<>> \in Seq(Ev) /\ Followed(<<>>)
  /\ \A type : None(<<>>, type)
  /\ \A now : CatalogAt(<<>>, now) /\ RecordsAt(<<>>, now)
BY DEF Followed, None, CatalogAt, RecordsAt, LastOf

(* What a queue of one message says.                                          *)
LEMMA OneMessage ==
  ASSUME NEW e \in Ev
  PROVE  /\ <<e>> \in Seq(Ev) /\ \A type : None(<<e>>, type) <=> e.type # type
         /\ (e.type \notin Entry => Followed(<<e>>))
         /\ \A now : CatalogAt(<<e>>, now) <=> (e.type = "INVENTORY_UPDATED" => e.catalog = now)
         /\ \A now : RecordsAt(<<e>>, now) <=> (e.type = "CLUB_SESSION_HISTORY" => e.sessions = now)
         /\ \A i \in DOMAIN <<e>> : <<e>>[i] = e
<1> DEFINE q == <<e>>
<1>1. q \in Seq(Ev) /\ DOMAIN q = {1} /\ q[1] = e
  OBVIOUS
<1> HIDE DEF q
<1>2. \A type : None(q, type) <=> e.type # type
  BY <1>1 DEF None
<1>3. \A type, i : LastOf(q, type, i) <=> i = 1 /\ e.type = type
  BY <1>1 DEF LastOf
<1>4. e.type \notin Entry => Followed(q)
  BY <1>1 DEF Followed
<1>5. \A now : CatalogAt(q, now) <=> (e.type = "INVENTORY_UPDATED" => e.catalog = now)
  BY <1>1, <1>3 DEF CatalogAt
<1>6. \A now : RecordsAt(q, now) <=> (e.type = "CLUB_SESSION_HISTORY" => e.sessions = now)
  BY <1>1, <1>3 DEF RecordsAt
<1>. QED BY <1>1, <1>2, <1>4, <1>5, <1>6 DEF q

(* Where the messages of two queues are when one is put behind the other.     *)
LEMMA Joined ==
  ASSUME NEW p \in Seq(Ev), NEW q \in Seq(Ev)
  PROVE  /\ p \o q \in Seq(Ev)
         /\ DOMAIN (p \o q) = 1 .. (Len(p) + Len(q))
         /\ \A i \in DOMAIN p : i \in DOMAIN (p \o q) /\ (p \o q)[i] = p[i]
         /\ \A i \in DOMAIN q : Len(p) + i \in DOMAIN (p \o q) /\ (p \o q)[Len(p) + i] = q[i]
         /\ \A i \in DOMAIN (p \o q) : i \in DOMAIN p \/ \E j \in DOMAIN q : i = Len(p) + j
<1>1. Len(p) \in Nat /\ Len(q) \in Nat /\ DOMAIN p = 1 .. Len(p) /\ DOMAIN q = 1 .. Len(q)
  OBVIOUS
<1>2. p \o q \in Seq(Ev) /\ Len(p \o q) = Len(p) + Len(q)
  OBVIOUS
<1>3. DOMAIN (p \o q) = 1 .. (Len(p) + Len(q))
  BY <1>2
<1>4. \A i \in 1 .. (Len(p) + Len(q)) : (p \o q)[i] = IF i <= Len(p) THEN p[i] ELSE q[i - Len(p)]
  OBVIOUS
<1>5. \A i \in 1 .. (Len(p) + Len(q)) :
        i \in 1 .. Len(p) \/ (i - Len(p) \in 1 .. Len(q) /\ i = Len(p) + (i - Len(p)))
  BY <1>1
<1>6. \A i \in 1 .. Len(q) : /\ Len(p) + i \in 1 .. (Len(p) + Len(q)) /\ ~(Len(p) + i <= Len(p))
                             /\ (Len(p) + i) - Len(p) = i
  BY <1>1
<1>7. \A i \in DOMAIN q : Len(p) + i \in DOMAIN (p \o q) /\ (p \o q)[Len(p) + i] = q[i]
  BY <1>1, <1>3, <1>4, <1>6
<1>8. \A i \in DOMAIN p : i \in DOMAIN (p \o q) /\ (p \o q)[i] = p[i]
  BY <1>1, <1>3, <1>4
<1>. QED BY <1>1, <1>2, <1>3, <1>5, <1>7, <1>8

(* What is in a joined queue, and that entries stay followed in it.           *)
LEMMA JoinedParts ==
  ASSUME NEW p \in Seq(Ev), NEW q \in Seq(Ev)
  PROVE  /\ \A type : None(p \o q, type) <=> None(p, type) /\ None(q, type)
         /\ Followed(p) /\ Followed(q) => Followed(p \o q)
         /\ \A i \in DOMAIN (p \o q) : \/ \E j \in DOMAIN p : (p \o q)[i] = p[j]
                                       \/ \E j \in DOMAIN q : (p \o q)[i] = q[j]
<1> DEFINE r == p \o q
<1>1. /\ \A i \in DOMAIN p : i \in DOMAIN r /\ r[i] = p[i]
      /\ \A i \in DOMAIN q : Len(p) + i \in DOMAIN r /\ r[Len(p) + i] = q[i]
      /\ \A i \in DOMAIN r : i \in DOMAIN p \/ \E j \in DOMAIN q : i = Len(p) + j
      /\ DOMAIN p = 1 .. Len(p) /\ DOMAIN q = 1 .. Len(q) /\ Len(p) \in Nat
  BY Joined
<1> HIDE DEF r
<1>2. \A type : None(r, type) <=> None(p, type) /\ None(q, type)
  BY <1>1 DEF None
<1>3. ASSUME Followed(p), Followed(q), NEW i \in DOMAIN r, r[i].type \in Entry
      PROVE  \E j \in DOMAIN r : j > i /\ r[j].type = "CLUB_SESSION_HISTORY"
  <2>1. CASE i \in DOMAIN p
    BY <1>1, <1>3, <2>1 DEF Followed
  <2>2. ASSUME NEW k \in DOMAIN q, i = Len(p) + k
        PROVE  \E j \in DOMAIN r : j > i /\ r[j].type = "CLUB_SESSION_HISTORY"
    <3>1. PICK l \in DOMAIN q : l > k /\ q[l].type = "CLUB_SESSION_HISTORY"
      BY <1>1, <1>3, <2>2 DEF Followed
    <3>2. Len(p) + l \in DOMAIN r /\ Len(p) + l > i /\ r[Len(p) + l].type = "CLUB_SESSION_HISTORY"
      BY <1>1, <2>2, <3>1
    <3>. QED BY <3>2
  <2>. QED BY <1>1, <2>1, <2>2
<1>4. \A i \in DOMAIN r : (\E j \in DOMAIN p : r[i] = p[j]) \/ (\E j \in DOMAIN q : r[i] = q[j])
  BY <1>1
<1>. QED BY <1>2, <1>3, <1>4 DEF Followed, r

(* The last message of a type in a joined queue is the last of the back part, *)
(* if the back part has one.                                                  *)
LEMMA LastJoined ==
  ASSUME NEW p \in Seq(Ev), NEW q \in Seq(Ev), NEW type, NEW i, LastOf(p \o q, type, i)
  PROVE  \/ /\ None(q, type) /\ LastOf(p, type, i) /\ (p \o q)[i] = p[i]
         \/ \E j : LastOf(q, type, j) /\ (p \o q)[i] = q[j]
<1> DEFINE r == p \o q
<1>1. /\ \A k \in DOMAIN p : k \in DOMAIN r /\ r[k] = p[k]
      /\ \A k \in DOMAIN q : Len(p) + k \in DOMAIN r /\ r[Len(p) + k] = q[k]
      /\ \A k \in DOMAIN r : k \in DOMAIN p \/ \E j \in DOMAIN q : k = Len(p) + j
      /\ DOMAIN p = 1 .. Len(p) /\ DOMAIN q = 1 .. Len(q) /\ Len(p) \in Nat
  BY Joined
<1>2. LastOf(r, type, i)
  OBVIOUS
<1> HIDE DEF r
<1>3. CASE i \in DOMAIN p
  <2>1. LastOf(p, type, i) /\ r[i] = p[i]
    BY <1>1, <1>2, <1>3 DEF LastOf
  <2>2. ASSUME NEW k \in DOMAIN q PROVE q[k].type # type
    <3>1. Len(p) + k \in DOMAIN r /\ Len(p) + k > i /\ r[Len(p) + k] = q[k]
      BY <1>1, <1>3
    <3>. QED BY <1>2, <3>1 DEF LastOf
  <2>. QED BY <2>1, <2>2 DEF None, r
<1>4. ASSUME NEW j \in DOMAIN q, i = Len(p) + j PROVE LastOf(q, type, j) /\ r[i] = q[j]
  <2>1. ASSUME NEW k \in DOMAIN q, k > j PROVE q[k].type # type
    <3>1. Len(p) + k \in DOMAIN r /\ Len(p) + k > i /\ r[Len(p) + k] = q[k]
      BY <1>1, <1>4, <2>1
    <3>. QED BY <1>2, <3>1 DEF LastOf
  <2>. QED BY <1>1, <1>2, <1>4, <2>1 DEF LastOf
<1>. QED BY <1>1, <1>2, <1>3, <1>4 DEF LastOf, r

(* So a joined queue ends with the present when its back part says so.        *)
LEMMA JoinedLast ==
  ASSUME NEW p \in Seq(Ev), NEW q \in Seq(Ev), NEW now
  PROVE  /\ CatalogAt(q, now) /\ (None(q, "INVENTORY_UPDATED") => CatalogAt(p, now))
            => CatalogAt(p \o q, now)
         /\ RecordsAt(q, now) /\ (None(q, "CLUB_SESSION_HISTORY") => RecordsAt(p, now))
            => RecordsAt(p \o q, now)
<1> DEFINE r == p \o q
<1>1. \A type, i : LastOf(r, type, i) =>
        \/ None(q, type) /\ LastOf(p, type, i) /\ r[i] = p[i]
        \/ \E j : LastOf(q, type, j) /\ r[i] = q[j]
  BY LastJoined
<1> HIDE DEF r
<1>2. ASSUME CatalogAt(q, now), None(q, "INVENTORY_UPDATED") => CatalogAt(p, now),
             NEW i, LastOf(r, "INVENTORY_UPDATED", i)
      PROVE  r[i].catalog = now
  BY <1>1, <1>2 DEF CatalogAt
<1>3. ASSUME RecordsAt(q, now), None(q, "CLUB_SESSION_HISTORY") => RecordsAt(p, now),
             NEW i, LastOf(r, "CLUB_SESSION_HISTORY", i)
      PROVE  r[i].sessions = now
  BY <1>1, <1>3 DEF RecordsAt
<1>4. /\ CatalogAt(q, now) /\ (None(q, "INVENTORY_UPDATED") => CatalogAt(p, now)) => CatalogAt(r, now)
      /\ RecordsAt(q, now) /\ (None(q, "CLUB_SESSION_HISTORY") => RecordsAt(p, now)) => RecordsAt(r, now)
  BY <1>2, <1>3 DEF CatalogAt, RecordsAt
<1>. QED BY <1>4 DEF r

(* The first message of a queue and the rest.                                 *)
LEMMA Taken ==
  ASSUME NEW q \in Seq(Ev), q # <<>>
  PROVE  /\ Head(q) \in Ev /\ Tail(q) \in Seq(Ev) /\ 1 \in DOMAIN q /\ q[1] = Head(q)
         /\ \A i \in DOMAIN Tail(q) : i + 1 \in DOMAIN q /\ Tail(q)[i] = q[i + 1]
         /\ \A i \in DOMAIN q : i = 1 \/ (i - 1 \in DOMAIN Tail(q) /\ q[i] = Tail(q)[i - 1])
         /\ \A i \in DOMAIN q : i \in Nat /\ i >= 1
OBVIOUS

(* What the rest of a queue keeps, and when the first message was the last of *)
(* its type.                                                                  *)
LEMMA TakenParts ==
  ASSUME NEW q \in Seq(Ev), q # <<>>
  PROVE  /\ \A type : None(q, type) <=> Head(q).type # type /\ None(Tail(q), type)
         /\ Followed(q) => /\ Followed(Tail(q))
                           /\ Head(q).type \in Entry => ~None(Tail(q), "CLUB_SESSION_HISTORY")
         /\ \A now : CatalogAt(q, now) =>
              /\ CatalogAt(Tail(q), now)
              /\ Head(q).type = "INVENTORY_UPDATED" /\ None(Tail(q), "INVENTORY_UPDATED")
                 => Head(q).catalog = now
         /\ \A now : RecordsAt(q, now) =>
              /\ RecordsAt(Tail(q), now)
              /\ Head(q).type = "CLUB_SESSION_HISTORY" /\ None(Tail(q), "CLUB_SESSION_HISTORY")
                 => Head(q).sessions = now
<1> DEFINE r == Tail(q)
<1>1. /\ 1 \in DOMAIN q /\ q[1] = Head(q)
      /\ \A i \in DOMAIN r : i + 1 \in DOMAIN q /\ r[i] = q[i + 1] /\ i \in Nat
      /\ \A i \in DOMAIN q : i = 1 \/ (i - 1 \in DOMAIN r /\ q[i] = r[i - 1])
      /\ \A i \in DOMAIN q : i \in Nat /\ i >= 1
  BY Taken
<1> HIDE DEF r
<1>2. \A type : None(q, type) <=> Head(q).type # type /\ None(r, type)
  BY <1>1 DEF None
<1>3. ASSUME NEW type, NEW i, LastOf(r, type, i) PROVE LastOf(q, type, i + 1) /\ q[i + 1] = r[i]
  BY <1>1, <1>3 DEF LastOf
<1>4. ASSUME NEW type, Head(q).type = type, None(r, type) PROVE LastOf(q, type, 1)
  BY <1>1, <1>4 DEF LastOf, None
<1>5. ASSUME Followed(q)
      PROVE  Followed(r) /\ (Head(q).type \in Entry => ~None(r, "CLUB_SESSION_HISTORY"))
  <2>1. ASSUME NEW i \in DOMAIN q, q[i].type \in Entry
        PROVE  \E j \in DOMAIN r : j > i - 1 /\ r[j].type = "CLUB_SESSION_HISTORY"
    <3>1. PICK j \in DOMAIN q : j > i /\ q[j].type = "CLUB_SESSION_HISTORY"
      BY <1>5, <2>1 DEF Followed
    <3>2. j - 1 \in DOMAIN r /\ q[j] = r[j - 1] /\ j - 1 > i - 1
      BY <1>1, <3>1
    <3>. QED BY <3>1, <3>2
  <2>2. ASSUME NEW i \in DOMAIN r, r[i].type \in Entry
        PROVE  \E j \in DOMAIN r : j > i /\ r[j].type = "CLUB_SESSION_HISTORY"
    <3>1. i + 1 \in DOMAIN q /\ q[i + 1].type \in Entry /\ (i + 1) - 1 = i
      BY <1>1, <2>2
    <3>. QED BY <2>1, <3>1
  <2>3. ASSUME Head(q).type \in Entry PROVE ~None(r, "CLUB_SESSION_HISTORY")
    BY <1>1, <2>1, <2>3 DEF None
  <2>. QED BY <2>2, <2>3 DEF Followed
<1>6. ASSUME NEW now, CatalogAt(q, now)
      PROVE  /\ CatalogAt(r, now)
             /\ Head(q).type = "INVENTORY_UPDATED" /\ None(r, "INVENTORY_UPDATED") => Head(q).catalog = now
  <2>1. ASSUME NEW i, LastOf(r, "INVENTORY_UPDATED", i) PROVE r[i].catalog = now
    BY <1>3, <1>6, <2>1 DEF CatalogAt
  <2>2. ASSUME Head(q).type = "INVENTORY_UPDATED", None(r, "INVENTORY_UPDATED")
        PROVE  Head(q).catalog = now
    BY <1>1, <1>4, <1>6, <2>2 DEF CatalogAt
  <2>. QED BY <2>1, <2>2 DEF CatalogAt
<1>7. ASSUME NEW now, RecordsAt(q, now)
      PROVE  /\ RecordsAt(r, now)
             /\ Head(q).type = "CLUB_SESSION_HISTORY" /\ None(r, "CLUB_SESSION_HISTORY") => Head(q).sessions = now
  <2>1. ASSUME NEW i, LastOf(r, "CLUB_SESSION_HISTORY", i) PROVE r[i].sessions = now
    BY <1>3, <1>7, <2>1 DEF RecordsAt
  <2>2. ASSUME Head(q).type = "CLUB_SESSION_HISTORY", None(r, "CLUB_SESSION_HISTORY")
        PROVE  Head(q).sessions = now
    BY <1>1, <1>4, <1>7, <2>2 DEF RecordsAt
  <2>. QED BY <2>1, <2>2 DEF RecordsAt
<1>. QED BY <1>2, <1>5, <1>6, <1>7 DEF r

(* A pair of messages: an entry and the records that follow it.               *)
LEMMA EntryMessages ==
  ASSUME NEW e \in Ev, NEW h \in Ev, e.type \in Entry, h.type = "CLUB_SESSION_HISTORY"
  PROVE  /\ <<e, h>> \in Seq(Ev) /\ Followed(<<e, h>>)
         /\ \A type : None(<<e, h>>, type) <=> e.type # type /\ h.type # type
         /\ \A now : CatalogAt(<<e, h>>, now)
         /\ \A now : RecordsAt(<<e, h>>, now) <=> h.sessions = now
         /\ \A i \in DOMAIN <<e, h>> : <<e, h>>[i] \in {e, h}
<1> DEFINE q == <<e, h>>
<1>1. q \in Seq(Ev) /\ DOMAIN q = {1, 2} /\ q[1] = e /\ q[2] = h
  OBVIOUS
<1> HIDE DEF q
<1>2. \A type : None(q, type) <=> e.type # type /\ h.type # type
  BY <1>1 DEF None
<1>3. e.type # h.type /\ e.type # "INVENTORY_UPDATED"
  BY DEF Entry
<1>4. Followed(q)
  BY <1>1, <1>3 DEF Followed, Entry
<1>5. \A now : CatalogAt(q, now)
  BY <1>1, <1>3 DEF CatalogAt, LastOf
<1>6. \A i : LastOf(q, "CLUB_SESSION_HISTORY", i) <=> i = 2
  BY <1>1, <1>3 DEF LastOf
<1>7. \A now : RecordsAt(q, now) <=> h.sessions = now
  BY <1>1, <1>6 DEF RecordsAt
<1>. QED BY <1>1, <1>2, <1>4, <1>5, <1>7 DEF q

(* The messages of the hub.                                                   *)
LEMMA EventType ==
  /\ \A type \in Told : /\ Event(type) \in Ev /\ Event(type).type = type
                          /\ Event(type).phone = 0
  /\ \A cat \in Seq(CourtRecord) : /\ Inventory(cat) \in Ev /\ Inventory(cat).type = "INVENTORY_UPDATED"
                                   /\ Inventory(cat).catalog = cat /\ Inventory(cat).phone = 0
  /\ \A records \in Seq(Record) : /\ History(records) \in Ev
                                  /\ History(records).type = "CLUB_SESSION_HISTORY"
                                  /\ History(records).sessions = records /\ History(records).phone = 0
  /\ \A phone \in Nat : /\ RevealResult(phone) \in Ev
                        /\ RevealResult(phone).type = "CLUB_REVEAL_PHONE_RESULT"
                        /\ RevealResult(phone).phone = phone
<1>1. <<>> \in Seq(CourtRecord) /\ <<>> \in Seq(Record)
  OBVIOUS
<1>2. \A type \in Told : /\ Event(type) \in Ev /\ Event(type).type = type
                         /\ Event(type).phone = 0
  BY <1>1 DEF Event, Ev
<1>3. ASSUME NEW cat \in Seq(CourtRecord)
      PROVE  /\ Inventory(cat) \in Ev /\ Inventory(cat).type = "INVENTORY_UPDATED"
             /\ Inventory(cat).catalog = cat /\ Inventory(cat).phone = 0
  BY <1>1 DEF Event, Ev, Inventory, Told
<1>4. ASSUME NEW records \in Seq(Record)
      PROVE  /\ History(records) \in Ev /\ History(records).type = "CLUB_SESSION_HISTORY"
             /\ History(records).sessions = records /\ History(records).phone = 0
  BY <1>1 DEF Event, Ev, History, Told
<1>5. ASSUME NEW phone \in Nat
      PROVE  /\ RevealResult(phone) \in Ev /\ RevealResult(phone).type = "CLUB_REVEAL_PHONE_RESULT"
             /\ RevealResult(phone).phone = phone
  BY <1>1 DEF Event, Ev, RevealResult, Told
<1>. QED BY <1>2, <1>3, <1>4, <1>5

(* What the hub may send to t in a step: the present courts, the present      *)
(* records to administrators only and behind each entry, and phones on record. *)
Part(t, ms) ==
  /\ ms \in Seq(Ev)
  /\ \A i \in DOMAIN ms : ms[i].type \in Entry \cup {"CLUB_SESSION_HISTORY"} => t \in role'
  /\ Followed(ms)
  /\ CatalogAt(ms, inventory')
  /\ "history" \notin failed' => RecordsAt(ms, history')
  /\ "audit" \notin failed' =>
       \A i \in DOMAIN ms : ms[i].phone # 0 => [tab |-> t, record |-> ms[i].phone] \in audit'

(* Two messages that fit may be sent one behind the other.                    *)
LEMMA PartsJoined ==
  ASSUME NEW t, NEW p, NEW q, Part(t, p), Part(t, q)
  PROVE  /\ Part(t, p \o q)
         /\ \A type : None(p \o q, type) <=> None(p, type) /\ None(q, type)
<1>1. p \in Seq(Ev) /\ q \in Seq(Ev)
  BY DEF Part
<1> DEFINE r == p \o q
<1>2. /\ r \in Seq(Ev)
      /\ \A type : None(r, type) <=> None(p, type) /\ None(q, type)
      /\ Followed(p) /\ Followed(q) => Followed(r)
      /\ \A i \in DOMAIN r : (\E j \in DOMAIN p : r[i] = p[j]) \/ (\E j \in DOMAIN q : r[i] = q[j])
      /\ \A now : CatalogAt(q, now) /\ CatalogAt(p, now) => CatalogAt(r, now)
      /\ \A now : RecordsAt(q, now) /\ RecordsAt(p, now) => RecordsAt(r, now)
  BY <1>1, Joined, JoinedParts, JoinedLast
<1> HIDE DEF r
<1>3. Part(t, r)
  BY <1>2 DEF Part
<1>. QED BY <1>2, <1>3 DEF r

(* Messages about neither courts nor records fit whatever the step.           *)
LEMMA QuietPart ==
  ASSUME NEW t
  PROVE  /\ Part(t, <<>>)
         /\ \A type \in Quiet : Part(t, <<Event(type)>>) /\ \A x : x \notin Quiet => None(<<Event(type)>>, x)
<1>1. Part(t, <<>>)
  BY EmptyQueue DEF Part
<1>2. ASSUME NEW type \in Quiet
      PROVE  Part(t, <<Event(type)>>) /\ \A x : x \notin Quiet => None(<<Event(type)>>, x)
  <2> DEFINE e == Event(type)
  <2>1. e \in Ev /\ e.type = type /\ e.phone = 0
    BY EventType DEF Told
  <2> HIDE DEF e
  <2>2. type \notin Entry \cup {"CLUB_SESSION_HISTORY", "INVENTORY_UPDATED"}
    BY DEF Quiet, Entry
  <2>. QED BY <2>1, <2>2, OneMessage DEF Part, e
<1>. QED BY <1>1, <1>2

(* The courts there are fit.                                                  *)
LEMMA CatalogPart ==
  ASSUME NEW t, NEW cat \in Seq(CourtRecord), cat = inventory'
  PROVE  Part(t, <<Inventory(cat)>>) /\ ~None(<<Inventory(cat)>>, "INVENTORY_UPDATED")
<1> DEFINE e == Inventory(cat)
<1>1. e \in Ev /\ e.type = "INVENTORY_UPDATED" /\ e.phone = 0 /\ e.catalog = inventory'
  BY EventType
<1> HIDE DEF e
<1>2. e.type \notin Entry \cup {"CLUB_SESSION_HISTORY"}
  BY <1>1 DEF Entry
<1>. QED BY <1>1, <1>2, OneMessage DEF Part, e

(* The records there are fit for an administrator.                            *)
LEMMA RecordsPart ==
  ASSUME NEW t, t \in role', NEW records \in Seq(Record),
         records = history' \/ "history" \in failed'
  PROVE  Part(t, <<History(records)>>) /\ ~None(<<History(records)>>, "CLUB_SESSION_HISTORY")
<1> DEFINE e == History(records)
<1>1. e \in Ev /\ e.type = "CLUB_SESSION_HISTORY" /\ e.phone = 0 /\ e.sessions = records
  BY EventType
<1> HIDE DEF e
<1>2. e.type \notin Entry
  BY <1>1 DEF Entry
<1>. QED BY <1>1, <1>2, OneMessage DEF Part, e

(* An entry fits when the records follow it.                                  *)
LEMMA EntryPart ==
  ASSUME NEW t, t \in role', NEW type \in Entry, history' \in Seq(Record)
  PROVE  /\ Part(t, <<Event(type), History(history')>>)
         /\ ~None(<<Event(type), History(history')>>, "CLUB_SESSION_HISTORY")
<1> DEFINE e == Event(type)
           h == History(history')
<1>1. e \in Ev /\ e.type = type /\ e.phone = 0
  BY EventType DEF Told
<1>2. h \in Ev /\ h.type = "CLUB_SESSION_HISTORY" /\ h.phone = 0 /\ h.sessions = history'
  BY EventType
<1> HIDE DEF e, h
<1>. QED BY <1>1, <1>2, EntryMessages DEF Part, e, h

(* A phone fits when it is on record.                                         *)
LEMMA PhonePart ==
  ASSUME NEW t, NEW phone \in Nat,
         phone = 0 \/ "audit" \in failed' \/ [tab |-> t, record |-> phone] \in audit'
  PROVE  Part(t, <<RevealResult(phone)>>)
<1> DEFINE e == RevealResult(phone)
<1>1. e \in Ev /\ e.type = "CLUB_REVEAL_PHONE_RESULT" /\ e.phone = phone
  BY EventType
<1> HIDE DEF e
<1>2. e.type \notin Entry \cup {"CLUB_SESSION_HISTORY", "INVENTORY_UPDATED"}
  BY <1>1 DEF Entry
<1>. QED BY <1>1, <1>2, OneMessage DEF Part, e

(* What is sent to a tab that is connected comes behind what is on its way.   *)
Sent(news) == toTab' = [t \in Tabs |-> IF tab[t].up THEN toTab[t] \o news[t] ELSE toTab[t]]

(* A message for the tabs of T.                                               *)
LEMMA SentOnce ==
  ASSUME Queued, NEW T, NEW ms \in Seq(Ev), toTab' = With(toTab, T, ms)
  PROVE  Sent([t \in Tabs |-> IF t \in T THEN ms ELSE <<>>])
<1>1. \A q \in Seq(Ev) : q \o <<>> = q
  OBVIOUS
<1>2. \A t \in Tabs : toTab[t] \in Seq(Ev)
  BY DEF Queued
<1>3. \A t \in Tabs : (IF t \in T /\ tab[t].up THEN toTab[t] \o ms ELSE toTab[t])
                    = IF tab[t].up THEN toTab[t] \o (IF t \in T THEN ms ELSE <<>>) ELSE toTab[t]
  BY <1>1, <1>2
<1>4. With(toTab, T, ms) =
        [t \in Tabs |-> IF tab[t].up THEN toTab[t] \o (IF t \in T THEN ms ELSE <<>>) ELSE toTab[t]]
  BY <1>3, Zenon DEF With
<1>. QED BY <1>4 DEF Sent

Both(S, ms, T, ns) ==
  [t \in Tabs |-> (IF t \in S THEN ms ELSE <<>>) \o (IF t \in T THEN ns ELSE <<>>)]

(* A message for the tabs of S and one behind it for those of T.              *)
LEMMA SentTwice ==
  ASSUME Queued, NEW S, NEW T, NEW ms \in Seq(Ev), NEW ns \in Seq(Ev),
         toTab' = With(With(toTab, S, ms), T, ns)
  PROVE  Sent(Both(S, ms, T, ns))
<1>1. \A q \in Seq(Ev) : q \o <<>> = q /\ <<>> \o q = q
  OBVIOUS
<1>2. \A q \in Seq(Ev) : (q \o ms) \o ns = q \o (ms \o ns)
  OBVIOUS
<1> DEFINE both(t) == (IF t \in S THEN ms ELSE <<>>) \o (IF t \in T THEN ns ELSE <<>>)
<1>0. \A t \in Tabs : Both(S, ms, T, ns)[t] = both(t)
  BY DEF Both
<1>3. \A t \in Tabs : With(toTab, S, ms)[t] = IF t \in S /\ tab[t].up THEN toTab[t] \o ms ELSE toTab[t]
  BY DEF With
<1>4. ASSUME NEW t \in Tabs
      PROVE  (IF t \in T /\ tab[t].up THEN With(toTab, S, ms)[t] \o ns ELSE With(toTab, S, ms)[t])
               = IF tab[t].up
                 THEN toTab[t] \o ((IF t \in S THEN ms ELSE <<>>) \o (IF t \in T THEN ns ELSE <<>>))
                 ELSE toTab[t]
  <2>1. toTab[t] \in Seq(Ev) /\ <<>> \in Seq(Ev)
    BY DEF Queued
  <2>2. CASE t \in S /\ t \in T /\ tab[t].up
    BY <1>2, <1>3, <2>1, <2>2
  <2>3. CASE t \in S /\ t \notin T /\ tab[t].up
    BY <1>1, <1>3, <2>1, <2>3
  <2>4. CASE t \notin S /\ t \in T /\ tab[t].up
    BY <1>1, <1>3, <2>1, <2>4
  <2>5. CASE t \notin S /\ t \notin T /\ tab[t].up
    BY <1>1, <1>3, <2>1, <2>5
  <2>6. CASE ~tab[t].up
    BY <1>3, <2>6
  <2>. QED BY <2>2, <2>3, <2>4, <2>5, <2>6
<1> DEFINE first == With(toTab, S, ms)
<1>5. With(first, T, ns) = [t \in Tabs |-> IF t \in T /\ tab[t].up THEN first[t] \o ns ELSE first[t]]
  BY Zenon DEF With
<1> HIDE DEF first
<1>6. [t \in Tabs |-> IF t \in T /\ tab[t].up THEN first[t] \o ns ELSE first[t]]
        = [t \in Tabs |-> IF tab[t].up
             THEN toTab[t] \o Both(S, ms, T, ns)[t]
             ELSE toTab[t]]
  BY <1>0, <1>4 DEF first
<1>. QED BY <1>5, <1>6 DEF Sent, first

(* What every step of the hub has in common: a request is served, or none.    *)
HubStep ==
  /\ AdminTypeOK' /\ drawn' \in [court: Nat, record: Nat, key: Nat]
  /\ toHub' = toHub \/ \E s \in Tabs : toHub[s] # <<>> /\ toHub' = [toHub EXCEPT ![s] = Tail(@)]
  /\ UNCHANGED tab
  /\ role \subseteq role' /\ failed \subseteq failed' /\ audit \subseteq audit'

(* A step of the hub: a request of s is served, or none; what is sent fits,   *)
(* and a change of the courts or of the records is sent to all whom it        *)
(* concerns.                                                                  *)
LEMMA HubLemma ==
  ASSUME AdminInv, HubStep, NEW news, Sent(news),
         \A t \in Tabs :
           /\ Part(t, news[t])
           /\ None(news[t], "INVENTORY_UPDATED") =>
                inventory' = inventory /\ (None(toHub'[t], "GET") => None(toHub[t], "GET"))
           /\ None(news[t], "CLUB_SESSION_HISTORY") /\ t \in role' /\ "history" \notin failed'
                => history' = history
  PROVE  AdminInv'
<1>0. /\ AdminTypeOK' /\ drawn' \in [court: Nat, record: Nat, key: Nat]
      /\ toHub' = toHub \/ \E s \in Tabs : toHub[s] # <<>> /\ toHub' = [toHub EXCEPT ![s] = Tail(@)]
      /\ tab' = tab /\ role \subseteq role' /\ failed \subseteq failed' /\ audit \subseteq audit'
  BY DEF HubStep
<1>1. AdminTypeOK /\ Queued /\ UpIsLive /\ Entitled /\ DashboardNeedsRole /\ HistoryFollows
      /\ CatalogInOrder /\ RecordsInOrder /\ RevealsAreLogged
  BY DEF AdminInv
<1>2. ASSUME NEW t \in Tabs, tab[t].up
      PROVE  /\ toTab[t] \in Seq(Ev) /\ news[t] \in Seq(Ev)
             /\ toTab'[t] = toTab[t] \o news[t] /\ toTab'[t] \in Seq(Ev)
             /\ \A type : None(toTab'[t], type) <=> None(toTab[t], type) /\ None(news[t], type)
             /\ Followed(toTab'[t])
             /\ \A i \in DOMAIN toTab'[t] : \/ \E j \in DOMAIN toTab[t] : toTab'[t][i] = toTab[t][j]
                                            \/ \E j \in DOMAIN news[t] : toTab'[t][i] = news[t][j]
             /\ \A now : CatalogAt(news[t], now) /\ (None(news[t], "INVENTORY_UPDATED") => CatalogAt(toTab[t], now))
                           => CatalogAt(toTab'[t], now)
             /\ \A now : RecordsAt(news[t], now) /\ (None(news[t], "CLUB_SESSION_HISTORY") => RecordsAt(toTab[t], now))
                           => RecordsAt(toTab'[t], now)
  <2>1. toTab[t] \in Seq(Ev) /\ news[t] \in Seq(Ev) /\ Followed(toTab[t]) /\ Followed(news[t])
    BY <1>1 DEF Queued, Part, HistoryFollows
  <2>2. toTab'[t] = toTab[t] \o news[t]
    BY <1>2 DEF Sent
  <2> DEFINE p == toTab[t]
             q == news[t]
  <2>3. p \in Seq(Ev) /\ q \in Seq(Ev) /\ Followed(p) /\ Followed(q)
    BY <2>1
  <2> HIDE DEF p, q
  <2>4. /\ p \o q \in Seq(Ev)
        /\ \A type : None(p \o q, type) <=> None(p, type) /\ None(q, type)
        /\ Followed(p \o q)
        /\ \A i \in DOMAIN (p \o q) : \/ \E j \in DOMAIN p : (p \o q)[i] = p[j]
                                      \/ \E j \in DOMAIN q : (p \o q)[i] = q[j]
        /\ \A now : CatalogAt(q, now) /\ (None(q, "INVENTORY_UPDATED") => CatalogAt(p, now))
                      => CatalogAt(p \o q, now)
        /\ \A now : RecordsAt(q, now) /\ (None(q, "CLUB_SESSION_HISTORY") => RecordsAt(p, now))
                      => RecordsAt(p \o q, now)
    BY <2>3, Joined, JoinedParts, JoinedLast
  <2>. QED BY <2>1, <2>2, <2>4 DEF p, q
<1>3. ASSUME NEW t \in Tabs, ~tab[t].up
      PROVE  toTab'[t] = <<>> /\ toHub[t] = <<>> /\ t \notin role'
  BY <1>0, <1>1, <1>3 DEF UpIsLive, Sent, AdminTypeOK
<1>4. Queued'
  <2>1. \A t \in Tabs : toTab'[t] \in Seq(Ev)
    BY <1>2, <1>3, EmptyQueue
  <2>2. toTab' \in [Tabs -> Seq(Ev)]
    <3>1. toTab' = [t \in Tabs |-> toTab'[t]]
      BY Zenon DEF Sent
    <3>. QED BY <2>1, <3>1
  <2>3. \A q \in Seq(Req) : q # <<>> => Tail(q) \in Seq(Req)
    OBVIOUS
  <2>4. toHub' \in [Tabs -> Seq(Req)]
    BY <1>0, <1>1, <2>3 DEF Queued
  <2>. QED BY <1>0, <2>2, <2>4 DEF Queued
<1>5. UpIsLive'
  BY <1>0, <1>1, <1>3 DEF UpIsLive, Queued
<1>6. Entitled'
  <2>1. ASSUME NEW t \in Tabs, NEW i \in DOMAIN toTab'[t], 
               toTab'[t][i].type \in Entry \cup {"CLUB_SESSION_HISTORY"}
        PROVE  t \in role'
    <3>1. CASE tab[t].up
      BY <1>0, <1>1, <1>2, <2>1, <3>1 DEF Entitled, Part
    <3>2. CASE ~tab[t].up
      BY <1>3, <2>1, <3>2
    <3>. QED BY <3>1, <3>2
  <2>. QED BY <2>1 DEF Entitled
<1>7. DashboardNeedsRole'
  BY <1>0, <1>1 DEF DashboardNeedsRole
<1>8. HistoryFollows'
  BY <1>0, <1>2, <1>3, EmptyQueue DEF HistoryFollows
<1>9. CatalogInOrder'
  <2>1. ASSUME NEW t \in Tabs
        PROVE  /\ CatalogAt(toTab'[t], inventory')
               /\ tab[t].up /\ tab[t].page = "admin" /\ None(toHub'[t], "GET")
                    /\ None(toTab'[t], "INVENTORY_UPDATED") => tab[t].catalog = inventory'
    <3>1. CASE tab[t].up
      BY <1>0, <1>1, <1>2, <3>1 DEF CatalogInOrder, Part
    <3>2. CASE ~tab[t].up
      BY <1>0, <1>3, <3>2, EmptyQueue
    <3>. QED BY <3>1, <3>2
  <2>. QED BY <1>0, <2>1 DEF CatalogInOrder
<1>10. RecordsInOrder'
  <2>1. ASSUME "history" \notin failed', NEW t \in Tabs
        PROVE  /\ RecordsAt(toTab'[t], history')
               /\ tab[t].isAdmin /\ None(toTab'[t], "CLUB_SESSION_HISTORY") => tab[t].sessions = history'
    <3>1. "history" \notin failed
      BY <1>0, <2>1
    <3>2. CASE tab[t].up /\ t \in role'
      BY <1>0, <1>1, <1>2, <2>1, <3>1, <3>2 DEF RecordsInOrder, Part
    <3>3. CASE t \notin role'
      BY <1>0, <1>1, <1>6, <3>3 DEF Entitled, DashboardNeedsRole, RecordsAt, LastOf
    <3>4. CASE ~tab[t].up
      BY <1>0, <1>1, <1>3, <3>4, EmptyQueue DEF DashboardNeedsRole
    <3>. QED BY <3>2, <3>3, <3>4
  <2>. QED BY <1>0, <2>1 DEF RecordsInOrder
<1>11. RevealsAreLogged'
  <2>1. ASSUME "audit" \notin failed', NEW t \in Tabs, NEW i \in DOMAIN toTab'[t], toTab'[t][i].phone # 0
        PROVE  [tab |-> t, record |-> toTab'[t][i].phone] \in audit'
    <3>1. CASE tab[t].up /\ \E j \in DOMAIN toTab[t] : toTab'[t][i] = toTab[t][j]
      BY <1>0, <1>1, <2>1, <3>1 DEF RevealsAreLogged, PhonesAt
    <3>2. CASE tab[t].up /\ \E j \in DOMAIN news[t] : toTab'[t][i] = news[t][j]
      BY <2>1, <3>2 DEF Part
    <3>3. CASE ~tab[t].up
      BY <1>3, <2>1, <3>3
    <3>. QED BY <1>2, <3>1, <3>2, <3>3
  <2>2. ASSUME "audit" \notin failed', NEW t \in Tabs, tab[t].revealed.phone # 0
        PROVE  [tab |-> t, record |-> tab[t].revealed.phone] \in audit'
    BY <1>0, <1>1, <2>2 DEF RevealsAreLogged, PhonesAt
  <2>. QED BY <1>0, <2>1, <2>2 DEF RevealsAreLogged, PhonesAt
<1>. QED BY <1>0, <1>4, <1>5, <1>6, <1>7, <1>8, <1>9, <1>10, <1>11 DEF AdminInv

(* HubLemma for one message.                                                  *)
LEMMA HubOnce ==
  ASSUME AdminInv, HubStep, NEW T, NEW ms \in Seq(Ev), toTab' = With(toTab, T, ms),
         \A t \in Tabs :
           /\ t \in T => Part(t, ms)
           /\ t \notin T \/ None(ms, "INVENTORY_UPDATED") =>
                inventory' = inventory /\ (None(toHub'[t], "GET") => None(toHub[t], "GET"))
           /\ (t \notin T \/ None(ms, "CLUB_SESSION_HISTORY")) /\ t \in role' /\ "history" \notin failed'
                => history' = history
  PROVE  AdminInv'
<1> DEFINE news == [t \in Tabs |-> IF t \in T THEN ms ELSE <<>>]
<1>1. Sent(news)
  BY SentOnce DEF AdminInv
<1>2. \A t \in Tabs : news[t] = IF t \in T THEN ms ELSE <<>>
  OBVIOUS
<1> HIDE DEF news
<1>3. \A t \in Tabs : Part(t, news[t])
  BY <1>2, QuietPart
<1>4. \A t \in Tabs : \A x : None(news[t], x) => t \notin T \/ None(ms, x)
  BY <1>2
<1>. QED BY <1>1, <1>3, <1>4, HubLemma

(* HubLemma for two.                                                          *)
LEMMA HubTwice ==
  ASSUME AdminInv, HubStep, NEW S, NEW T, NEW ms \in Seq(Ev), NEW ns \in Seq(Ev),
         toTab' = With(With(toTab, S, ms), T, ns),
         \A t \in Tabs :
           /\ t \in S => Part(t, ms)
           /\ t \in T => Part(t, ns)
           /\ (t \notin S \/ None(ms, "INVENTORY_UPDATED")) /\ (t \notin T \/ None(ns, "INVENTORY_UPDATED")) =>
                inventory' = inventory /\ (None(toHub'[t], "GET") => None(toHub[t], "GET"))
           /\ (t \notin S \/ None(ms, "CLUB_SESSION_HISTORY")) /\ (t \notin T \/ None(ns, "CLUB_SESSION_HISTORY"))
              /\ t \in role' /\ "history" \notin failed' => history' = history
  PROVE  AdminInv'
<1> DEFINE first(t) == IF t \in S THEN ms ELSE <<>>
           second(t) == IF t \in T THEN ns ELSE <<>>
           news == Both(S, ms, T, ns)
<1>1. Sent(news)
  BY SentTwice DEF AdminInv
<1>2. \A t \in Tabs : news[t] = first(t) \o second(t)
  BY DEF Both
<1>3. \A t \in Tabs : Part(t, first(t)) /\ Part(t, second(t))
  BY QuietPart
<1>4. \A t \in Tabs : \A x :
        /\ None(first(t), x) => t \notin S \/ None(ms, x)
        /\ None(second(t), x) => t \notin T \/ None(ns, x)
  OBVIOUS
<1> HIDE DEF first, second, news
<1>5. \A t \in Tabs : Part(t, first(t) \o second(t))
  BY <1>3, PartsJoined
<1>6. \A t \in Tabs : \A x : None(news[t], x) => None(first(t), x) /\ None(second(t), x)
  <2> SUFFICES ASSUME NEW t \in Tabs, NEW x, None(news[t], x)
               PROVE  None(first(t), x) /\ None(second(t), x)
    OBVIOUS
  <2>1. Part(t, first(t)) /\ Part(t, second(t)) /\ news[t] = first(t) \o second(t)
    BY <1>2, <1>3
  <2>2. None(first(t) \o second(t), x) <=> None(first(t), x) /\ None(second(t), x)
    BY ONLY <2>1, PartsJoined
  <2>. QED BY <2>1, <2>2
<1>7. \A t \in Tabs : Part(t, news[t])
  BY <1>2, <1>5
<1>8. \A t \in Tabs : \A x : None(news[t], x) => (t \notin S \/ None(ms, x)) /\ (t \notin T \/ None(ns, x))
  BY <1>4, <1>6
<1>9. \A t \in Tabs :
        /\ None(news[t], "INVENTORY_UPDATED") =>
             inventory' = inventory /\ (None(toHub'[t], "GET") => None(toHub[t], "GET"))
        /\ None(news[t], "CLUB_SESSION_HISTORY") /\ t \in role' /\ "history" \notin failed'
             => history' = history
  BY <1>8
<1>. QED BY <1>1, <1>7, <1>9, HubLemma

(* Min, defined by CHOOSE, is a member of every nonempty set of naturals.     *)
LEMMA MinOfNats ==
  ASSUME NEW S, S \subseteq Nat, S # {}
  PROVE  Min(S) \in S
<1> DEFINE T == {1 .. n : n \in S}
<1>1. T \subseteq FiniteSubsetsOf(Nat)
  BY FS_Interval DEF FiniteSubsetsOf
<1>2. PICK m \in S : \A k \in S : <<1 .. k, 1 .. m>> \notin StrictSubsetOrdering(Nat)
  <2>1. IsWellFoundedOn(StrictSubsetOrdering(Nat), FiniteSubsetsOf(Nat)) /\ T # {}
    BY FS_StrictSubsetOrderingWellFounded
  <2> HIDE DEF T
  <2>2. PICK x \in T : \A y \in T : <<y, x>> \notin StrictSubsetOrdering(Nat)
    BY <1>1, <2>1, WFMin
  <2>. QED BY <2>2 DEF T
<1>3. ASSUME NEW k \in S, ~(m <= k) PROVE FALSE
  <2>1. k \in Nat /\ m \in Nat /\ k < m
    BY <1>3
  <2>2. 1 .. k \subseteq 1 .. m /\ m \in 1 .. m /\ m \notin 1 .. k
    BY <2>1
  <2>3. 1 .. k \in SUBSET Nat /\ 1 .. m \in SUBSET Nat /\ 1 .. k # 1 .. m
    BY <2>1, <2>2
  <2>4. <<1 .. k, 1 .. m>> \in StrictSubsetOrdering(Nat)
    BY <2>2, <2>3 DEF StrictSubsetOrdering
  <2>. QED BY <1>2, <2>4
<1>. QED BY <1>3 DEF Min

(* There is always a number for a new court: n courts cannot have n + 1.      *)
LEMMA NumberType ==
  ASSUME NEW cat \in Seq(CourtRecord)
  PROVE  Number(cat) \in Nat
<1> DEFINE n == Len(cat)
           D == {j \in DOMAIN cat : cat[j].status # "ARCHIVED"}
           f == [i \in D |-> cat[i].number]
           used == {cat[i].number : i \in D}
           S == 1 .. (n + 1) \ used
<1>1. n \in Nat /\ DOMAIN cat = 1 .. n /\ D \subseteq 1 .. n
  OBVIOUS
<1>2. IsFiniteSet(D) /\ Cardinality(D) <= n
  <2>1. IsFiniteSet(1 .. n) /\ Cardinality(1 .. n) = n
    BY <1>1, FS_Interval
  <2> HIDE DEF D, n
  <2>2. D \in SUBSET (1 .. n)
    BY <1>1
  <2>. QED BY <2>1, <2>2, FS_Subset
<1>3. f \in Surjection(D, used)
  BY DEF Surjection
<1>4. IsFiniteSet(used) /\ Cardinality(used) \in Nat /\ Cardinality(used) <= n
  <2> HIDE DEF D, f, used, n
  <2>1. Cardinality(D) \in Nat
    BY <1>2, FS_CardinalityType
  <2>2. IsFiniteSet(used) /\ Cardinality(used) <= Cardinality(D)
    BY <1>2, <1>3, FS_Surjection
  <2>. QED BY <1>1, <1>2, <2>1, <2>2, FS_CardinalityType
<1>5. S # {}
  <2> HIDE DEF D, f, used, n
  <2>1. SUFFICES ASSUME 1 .. (n + 1) \subseteq used PROVE FALSE
    OBVIOUS
  <2>2. Cardinality(1 .. (n + 1)) = n + 1
    BY <1>1, FS_Interval
  <2>3. Cardinality(1 .. (n + 1)) <= Cardinality(used)
    BY <1>4, <2>1, FS_Subset
  <2>. QED BY <1>1, <1>4, <2>2, <2>3
<1>6. S \subseteq Nat
  BY <1>1
<1>7. Min(S) \in Nat
  <2> HIDE DEF S
  <2>. QED BY <1>5, <1>6, MinOfNats
<1>. QED BY <1>7 DEF Number

(* A court added keeps the catalog a sequence of courts.                      *)
LEMMA AddedType ==
  ASSUME NEW cat \in Seq(CourtRecord), drawn \in [court: Nat, record: Nat, key: Nat]
  PROVE  Added(cat) \in Seq(CourtRecord)
<1>1. Number(cat) \in Nat
  BY NumberType
<1>2. [id |-> drawn.court + 1, number |-> Number(cat), status |-> "ACTIVE"] \in CourtRecord
  BY <1>1 DEF CourtRecord
<1>. QED BY <1>2 DEF Added

(* So does a change of status.                                                *)
LEMMA WithStatusType ==
  ASSUME NEW cat \in Seq(CourtRecord), NEW c, NEW status \in {"ACTIVE", "MAINTENANCE", "ARCHIVED"}
  PROVE  WithStatus(cat, c, status) \in Seq(CourtRecord)
<1>1. \A r \in CourtRecord : [r EXCEPT !.status = status] \in CourtRecord
  BY DEF CourtRecord
<1>2. \A i \in 1 .. Len(cat) : cat[i] \in CourtRecord
  OBVIOUS
<1>3. \A i \in 1 .. Len(cat) :
        (IF cat[i].id = c THEN [cat[i] EXCEPT !.status = status] ELSE cat[i]) \in CourtRecord
  BY <1>1, <1>2
<1>4. DOMAIN cat = 1 .. Len(cat) /\ Len(cat) \in Nat
  OBVIOUS
<1>5. WithStatus(cat, c, status) \in [1 .. Len(cat) -> CourtRecord]
  BY <1>3, <1>4 DEF WithStatus
<1>. QED BY <1>4, <1>5

(* The hub takes the first request of t; only a GET is missed by its page.    *)
Served(t) ==
  /\ toHub[t] # <<>> /\ toHub' = [toHub EXCEPT ![t] = Tail(@)]
  /\ UNCHANGED tab

(* What serving a request leaves: a page that waits for its GET still waits   *)
(* unless that was it.                                                        *)
LEMMA ServedRequest ==
  ASSUME AdminInv, NEW t \in Tabs, Served(t)
  PROVE  /\ Head(toHub[t]) \in Req /\ tab[t].up
         /\ toHub[t] # <<>> /\ toHub' = [toHub EXCEPT ![t] = Tail(toHub[t])] /\ UNCHANGED tab
         /\ \A u \in Tabs : u # t \/ Head(toHub[t]).type # "GET" =>
              (None(toHub'[u], "GET") => None(toHub[u], "GET"))
<1>1. /\ toHub \in [Tabs -> Seq(Req)] /\ toHub[t] # <<>>
      /\ toHub' = [toHub EXCEPT ![t] = Tail(toHub[t])] /\ UNCHANGED tab
      /\ tab[t].up \in BOOLEAN
  BY DEF AdminInv, AdminTypeOK, Tab, Queued, Served
<1>2. tab[t].up
  BY <1>1 DEF AdminInv, UpIsLive
<1>3. \A q \in Seq(Req) : q # <<>> =>
        /\ Head(q) \in Req /\ q[1] = Head(q)
        /\ \A i \in DOMAIN q : i = 1 \/ (i - 1 \in DOMAIN Tail(q) /\ q[i] = Tail(q)[i - 1])
  OBVIOUS
<1>4. toHub'[t] = Tail(toHub[t]) /\ \A u \in Tabs \ {t} : toHub'[u] = toHub[u]
  BY <1>1
<1>5. ASSUME NEW u \in Tabs, u # t \/ Head(toHub[t]).type # "GET", None(toHub'[u], "GET")
      PROVE  None(toHub[u], "GET")
  <2>1. CASE u # t
    BY <1>4, <1>5, <2>1
  <2>2. CASE u = t
    <3> DEFINE q == toHub[t]
    <3>1. q \in Seq(Req) /\ q # <<>> /\ Head(q).type # "GET" /\ None(Tail(q), "GET")
      BY <1>1, <1>4, <1>5, <2>2
    <3> HIDE DEF q
    <3>2. None(q, "GET")
      BY <1>3, <3>1 DEF None
    <3>. QED BY <2>2, <3>2 DEF q
  <2>. QED BY <2>1, <2>2
<1>6. Head(toHub[t]) \in Req
  BY <1>1, <1>3
<1>. QED BY <1>1, <1>2, <1>5, <1>6

(* What a step that changes neither courts nor records may send.              *)
LEMMA QuietOnce ==
  ASSUME AdminInv, HubStep, NEW T, NEW type \in Quiet, toTab' = With(toTab, T, <<Event(type)>>),
         inventory' = inventory, history' = history,
         \A u \in Tabs : None(toHub'[u], "GET") => None(toHub[u], "GET")
  PROVE  AdminInv'
<1> DEFINE ms == <<Event(type)>>
<1>1. ms \in Seq(Ev) /\ \A t \in Tabs : Part(t, ms)
  <2>1. \A t \in Tabs : Part(t, ms)
    BY QuietPart
  <2>2. Event(type) \in Ev
    BY EventType DEF Told
  <2>. QED BY <2>1, <2>2
<1> HIDE DEF ms
<1>2. toTab' = With(toTab, T, ms)
  BY DEF ms
<1>. QED BY <1>1, <1>2, HubOnce

(* A step that changes neither courts nor records may be silent.              *)
LEMMA NothingSent ==
  ASSUME AdminInv, HubStep, UNCHANGED <<toTab, inventory, history>>,
         \A u \in Tabs : None(toHub'[u], "GET") => None(toHub[u], "GET")
  PROVE  AdminInv'
<1>1. <<>> \in Seq(Ev) /\ \A t \in Tabs : Part(t, <<>>)
  BY QuietPart, EmptyQueue
<1>2. toTab \in [Tabs -> Seq(Ev)]
  BY DEF AdminInv, Queued
<1>3. toTab' = With(toTab, {}, <<>>)
  BY <1>2 DEF With
<1>. QED BY <1>1, <1>3, HubOnce

(* The first request of t is served, and the hub's data are well formed.      *)
LEMMA ServedStep ==
  ASSUME AdminInv, NEW t \in Tabs, Served(t), AdminTypeOK',
         drawn' \in [court: Nat, record: Nat, key: Nat],
         role \subseteq role', failed \subseteq failed', audit \subseteq audit'
  PROVE  HubStep
BY ServedRequest DEF HubStep

(* CLUB_GET_CONFIG with INVENTORY_LIST: the only request a page depends on,   *)
(* and answered.                                                              *)
LEMMA OnGetInv ==
  ASSUME AdminInv, NEW t \in Tabs, Served(t), OnGet(t, Head(toHub[t]))
  PROVE  AdminInv'
<1> DEFINE ms == RestoredTo(t)
           ns == <<Inventory(inventory)>>
<1>1. /\ toTab' = With(With(toTab, {t} \cap role, ms), {t}, ns)
      /\ UNCHANGED <<config, inventory, runtime, busy, history, audit, failed, role, pending, drawn>>
  BY DEF OnGet, hub
<1>2. AdminTypeOK /\ Queued /\ tab' = tab
  BY ServedRequest DEF AdminInv
<1>3. HubStep
  <2>1. AdminTypeOK'
    BY <1>1, <1>2 DEF AdminTypeOK
  <2>. QED BY <1>1, <1>2, <2>1, ServedStep DEF Queued
<1>4. ASSUME t \in role PROVE Part(t, ms)
  BY <1>1, <1>2, <1>4, EntryPart DEF RestoredTo, AdminTypeOK, Entry
<1>5. ms \in Seq(Ev) /\ ns \in Seq(Ev)
  <2>1. /\ Event("CLUB_SESSION_RESTORED") \in Ev /\ History(history) \in Ev
        /\ Inventory(inventory) \in Ev
    BY <1>2, EventType DEF AdminTypeOK, Told, Entry
  <2>. QED BY <2>1 DEF RestoredTo
<1>6. Part(t, ns) /\ ~None(ns, "INVENTORY_UPDATED")
  BY <1>1, <1>2, CatalogPart DEF AdminTypeOK
<1>7. \A u \in Tabs : u # t => (None(toHub'[u], "GET") => None(toHub[u], "GET"))
  BY ServedRequest
<1> HIDE DEF ms, ns
<1> DEFINE S == {t} \cap role
<1>8. \A u \in Tabs :
        /\ u \in S => Part(u, ms)
        /\ u \in {t} => Part(u, ns)
        /\ (u \notin S \/ None(ms, "INVENTORY_UPDATED")) /\ (u \notin {t} \/ None(ns, "INVENTORY_UPDATED")) =>
             inventory' = inventory /\ (None(toHub'[u], "GET") => None(toHub[u], "GET"))
        /\ (u \notin S \/ None(ms, "CLUB_SESSION_HISTORY")) /\ (u \notin {t} \/ None(ns, "CLUB_SESSION_HISTORY"))
           /\ u \in role' /\ "history" \notin failed' => history' = history
  BY <1>1, <1>4, <1>6, <1>7
<1>9. toTab' = With(With(toTab, S, ms), {t}, ns)
  BY <1>1
<1> HIDE DEF S
<1>. QED BY <1>3, <1>5, <1>8, <1>9, HubTwice

(* CLUB_VERIFY_ADMIN: the role comes with the entry and the records.          *)
LEMMA OnVerifyAdminInv ==
  ASSUME AdminInv, NEW t \in Tabs, Served(t), OnVerifyAdmin(t, Head(toHub[t]))
  PROVE  AdminInv'
<1>1. UNCHANGED <<config, inventory, runtime, busy, history, audit, failed, pending, drawn>>
  BY DEF OnVerifyAdmin
<1>2. AdminTypeOK /\ Queued /\ tab' = tab /\ tab[t].up
  BY ServedRequest DEF AdminInv
<1>3. \A u \in Tabs : None(toHub'[u], "GET") => None(toHub[u], "GET")
  BY ServedRequest DEF OnVerifyAdmin
<1>4. CASE role' = role \cup {t} /\ Tell({t}, <<Event("CLUB_ADMIN_VERIFIED"), History(history)>>)
  <2>1. HubStep
    <3>1. AdminTypeOK'
      BY <1>1, <1>2, <1>4 DEF AdminTypeOK
    <3>. QED BY <1>1, <1>2, <1>4, <3>1, ServedStep DEF Queued
  <2> DEFINE ms == <<Event("CLUB_ADMIN_VERIFIED"), History(history)>>
  <2>2. Part(t, ms)
    BY <1>1, <1>2, <1>4, EntryPart DEF AdminTypeOK, Entry
  <2>3. toTab' = With(toTab, {t}, ms)
    BY <1>4 DEF Tell
  <2> HIDE DEF ms
  <2>. QED BY <1>1, <1>3, <2>1, <2>2, <2>3, HubOnce DEF Part
<1>5. CASE Refuse(t) /\ UNCHANGED role
  <2>1. HubStep
    <3>1. AdminTypeOK'
      BY <1>1, <1>2, <1>5 DEF AdminTypeOK
    <3>. QED BY <1>1, <1>2, <1>5, <3>1, ServedStep DEF Queued
  <2>. QED BY <1>1, <1>3, <1>5, <2>1, QuietOnce DEF Refuse, Tell, Quiet
<1>. QED BY <1>4, <1>5 DEF OnVerifyAdmin

(* CLUB_SETUP: the first court is told to everybody.                          *)
LEMMA OnSetupInv ==
  ASSUME AdminInv, NEW t \in Tabs, Served(t), OnSetup(t, Head(toHub[t]))
  PROVE  AdminInv'
<1>1. UNCHANGED <<runtime, busy, history, audit, failed, role, pending>>
  BY DEF OnSetup
<1>2. AdminTypeOK /\ Queued /\ tab' = tab
  BY ServedRequest DEF AdminInv
<1>3. \A u \in Tabs : None(toHub'[u], "GET") => None(toHub[u], "GET")
  BY ServedRequest DEF OnSetup
<1>4. CASE /\ drawn' = [drawn EXCEPT !.key = @ + 1, !.court = @ + 1]
           /\ SaveConfig(drawn'.key)
           /\ inventory' = Added(inventory)
           /\ toTab' = With(With(toTab, Tabs, <<Inventory(inventory')>>),
                            {t}, <<Event("CLUB_SETUP_COMPLETE")>>)
  <2>1. inventory' \in Seq(CourtRecord)
    BY <1>2, <1>4, AddedType DEF AdminTypeOK, Queued
  <2>2. drawn' \in [court: Nat, record: Nat, key: Nat] /\ config' \in Nat
    <3>1. drawn \in [court: Nat, record: Nat, key: Nat]
      BY <1>2 DEF Queued
    <3>2. drawn' = [court |-> drawn.court + 1, record |-> drawn.record, key |-> drawn.key + 1]
      BY <1>4, <3>1
    <3>. QED BY <1>4, <3>1, <3>2 DEF SaveConfig
  <2>3. HubStep
    <3>1. AdminTypeOK'
      BY <1>1, <1>2, <2>1, <2>2 DEF AdminTypeOK
    <3>. QED BY <1>1, <2>2, <3>1, ServedStep
  <2> DEFINE ms == <<Inventory(inventory')>>
             ns == <<Event("CLUB_SETUP_COMPLETE")>>
  <2>4. \A u \in Tabs : Part(u, ms) /\ ~None(ms, "INVENTORY_UPDATED")
    BY <2>1, CatalogPart
  <2>5. Part(t, ns)
    BY QuietPart DEF Quiet
  <2>6. toTab' = With(With(toTab, Tabs, ms), {t}, ns)
    BY <1>4
  <2> HIDE DEF ms, ns
  <2>7. ms \in Seq(Ev) /\ ns \in Seq(Ev)
    BY <2>4, <2>5 DEF Part
  <2>8. \A u \in Tabs :
          /\ u \in Tabs => Part(u, ms)
          /\ u \in {t} => Part(u, ns)
          /\ (u \notin Tabs \/ None(ms, "INVENTORY_UPDATED")) /\ (u \notin {t} \/ None(ns, "INVENTORY_UPDATED")) =>
               inventory' = inventory /\ (None(toHub'[u], "GET") => None(toHub[u], "GET"))
          /\ (u \notin Tabs \/ None(ms, "CLUB_SESSION_HISTORY")) /\ (u \notin {t} \/ None(ns, "CLUB_SESSION_HISTORY"))
             /\ u \in role' /\ "history" \notin failed' => history' = history
    BY <1>1, <2>4, <2>5
  <2>. QED BY <2>3, <2>6, <2>7, <2>8, HubTwice
<1>5. CASE Refuse(t) /\ UNCHANGED <<drawn, config, inventory>>
  <2>1. HubStep
    <3>1. AdminTypeOK'
      BY <1>1, <1>2, <1>5 DEF AdminTypeOK
    <3>. QED BY <1>1, <1>2, <1>5, <3>1, ServedStep DEF Queued
  <2>. QED BY <1>1, <1>3, <1>5, <2>1, QuietOnce DEF Refuse, Tell, Quiet
<1>. QED BY <1>4, <1>5 DEF OnSetup

(* CLUB_RESET_SETUP: that there are no courts is told to everybody.           *)
LEMMA OnResetSetupInv ==
  ASSUME AdminInv, NEW t \in Tabs, Served(t), OnResetSetup(t, Head(toHub[t]))
  PROVE  AdminInv'
<1>1. UNCHANGED <<runtime, busy, history, audit, failed, role, pending, drawn>>
  BY DEF OnResetSetup
<1>2. AdminTypeOK /\ Queued /\ tab' = tab
  BY ServedRequest DEF AdminInv
<1>3. \A u \in Tabs : None(toHub'[u], "GET") => None(toHub[u], "GET")
  BY ServedRequest DEF OnResetSetup
<1>4. CASE SaveConfig(0) /\ FactoryState(t)
  <2>1. inventory' \in Seq(CourtRecord) /\ config' \in Nat
    BY <1>4 DEF FactoryState, ClearedCatalog, SaveConfig
  <2>2. HubStep
    <3>1. AdminTypeOK'
      BY <1>1, <1>2, <2>1 DEF AdminTypeOK
    <3>. QED BY <1>1, <1>2, <3>1, ServedStep DEF Queued
  <2> DEFINE ms == <<Inventory(inventory')>>
             ns == <<Event("CLUB_SETUP_RESET")>>
  <2>4. \A u \in Tabs : Part(u, ms) /\ ~None(ms, "INVENTORY_UPDATED")
    BY <2>1, CatalogPart
  <2>5. Part(t, ns)
    BY QuietPart DEF Quiet
  <2>6. toTab' = With(With(toTab, Tabs, ms), {t}, ns)
    BY <1>4 DEF FactoryState
  <2> HIDE DEF ms, ns
  <2>7. ms \in Seq(Ev) /\ ns \in Seq(Ev)
    BY <2>4, <2>5 DEF Part
  <2>8. \A u \in Tabs :
          /\ u \in Tabs => Part(u, ms)
          /\ u \in {t} => Part(u, ns)
          /\ (u \notin Tabs \/ None(ms, "INVENTORY_UPDATED")) /\ (u \notin {t} \/ None(ns, "INVENTORY_UPDATED")) =>
               inventory' = inventory /\ (None(toHub'[u], "GET") => None(toHub[u], "GET"))
          /\ (u \notin Tabs \/ None(ms, "CLUB_SESSION_HISTORY")) /\ (u \notin {t} \/ None(ns, "CLUB_SESSION_HISTORY"))
             /\ u \in role' /\ "history" \notin failed' => history' = history
    BY <1>1, <2>4, <2>5
  <2>. QED BY <2>2, <2>6, <2>7, <2>8, HubTwice
<1>5. CASE Refuse(t) /\ UNCHANGED <<config, inventory>>
  <2>1. HubStep
    <3>1. AdminTypeOK'
      BY <1>1, <1>2, <1>5 DEF AdminTypeOK
    <3>. QED BY <1>1, <1>2, <1>5, <3>1, ServedStep DEF Queued
  <2>. QED BY <1>1, <1>3, <1>5, <2>1, QuietOnce DEF Refuse, Tell, Quiet
<1>. QED BY <1>4, <1>5 DEF OnResetSetup

(* CLUB_CLEAR_HISTORY tells nobody and changes nothing told.                  *)
LEMMA OnClearHistoryInv ==
  ASSUME AdminInv, NEW t \in Tabs, Served(t), OnClearHistory(t, Head(toHub[t]))
  PROVE  AdminInv'
<1>1. /\ UNCHANGED <<config, inventory, runtime, busy, history, audit, failed, role, drawn, toTab>>
      /\ pending' \subseteq pending \cup role
  BY DEF OnClearHistory, IsAdmin
<1>2. AdminTypeOK /\ Queued /\ tab' = tab
  BY ServedRequest DEF AdminInv
<1>3. \A u \in Tabs : None(toHub'[u], "GET") => None(toHub[u], "GET")
  BY ServedRequest DEF OnClearHistory
<1>4. HubStep
  <2>1. AdminTypeOK'
    BY <1>1, <1>2 DEF AdminTypeOK
  <2>. QED BY <1>1, <1>2, <2>1, ServedStep DEF Queued
<1>. QED BY <1>1, <1>3, <1>4, NothingSent

(* Nor does the end of its thirty seconds.                                    *)
LEMMA PendingExpiresInv ==
  ASSUME AdminInv, NEW t \in Tabs, PendingExpires(t)
  PROVE  AdminInv'
<1>1. /\ UNCHANGED <<config, inventory, runtime, busy, history, audit, failed, role, drawn, tab, toHub, toTab>>
      /\ pending' \subseteq pending
  BY DEF PendingExpires
<1>2. AdminTypeOK /\ Queued
  BY DEF AdminInv
<1>3. HubStep
  <2>1. AdminTypeOK'
    BY <1>1, <1>2 DEF AdminTypeOK
  <2>. QED BY <1>1, <1>2, <2>1 DEF Queued, HubStep
<1>. QED BY <1>1, <1>3, NothingSent

(* A clear that could not be written is told all the same.                    *)
LEMMA OnConfirmInv ==
  ASSUME AdminInv, NEW t \in Tabs, Served(t), OnConfirm(t, Head(toHub[t]))
  PROVE  AdminInv'
<1>1. UNCHANGED <<config, inventory, runtime, busy, role, drawn>>
  BY DEF OnConfirm
<1>2. AdminTypeOK /\ Queued /\ tab' = tab
  BY ServedRequest DEF AdminInv
<1>3. \A u \in Tabs : None(toHub'[u], "GET") => None(toHub[u], "GET")
  BY ServedRequest DEF OnConfirm
<1>4. CASE /\ pending' = pending \ {t}
           /\ Written(Cleared, "history")
           /\ Tell(ClearHearers(t), <<History(<<>>)>>)
  <2>1. /\ history' = <<>> \/ (history' = history /\ "history" \in failed')
        /\ audit' = audit /\ failed \subseteq failed' /\ failed' \subseteq failed \cup {"history"}
    BY <1>4 DEF Written, Cleared
  <2>0. <<>> \in Seq(Record)
    OBVIOUS
  <2>2. HubStep
    <3>1. history' \in Seq(Record)
      BY <1>2, <2>0, <2>1 DEF AdminTypeOK
    <3>2. AdminTypeOK'
      BY <1>1, <1>2, <1>4, <2>1, <3>1 DEF AdminTypeOK
    <3>. QED BY <1>1, <1>2, <2>1, <3>2, ServedStep DEF Queued
  <2> DEFINE ms == <<History(<<>>)>>
  <2>3. ms \in Seq(Ev) /\ None(ms, "CLUB_SESSION_HISTORY") = FALSE
    <3>1. History(<<>>) \in Ev /\ History(<<>>).type = "CLUB_SESSION_HISTORY"
      BY <2>0, EventType
    <3>. QED BY <3>1, OneMessage
  <2>4. \A u \in role : Part(u, ms)
    BY <1>1, <2>0, <2>1, RecordsPart
  <2>5. toTab' = With(toTab, role, ms)
    BY <1>4 DEF Tell, ClearHearers
  <2> HIDE DEF ms
  <2>. QED BY <1>1, <1>3, <2>2, <2>3, <2>4, <2>5, HubOnce
<1>5. CASE UNCHANGED <<pending, history, audit, failed, toTab>>
  <2>1. HubStep
    <3>1. AdminTypeOK'
      BY <1>1, <1>2, <1>5 DEF AdminTypeOK
    <3>. QED BY <1>1, <1>2, <1>5, <3>1, ServedStep DEF Queued
  <2>. QED BY <1>1, <1>3, <1>5, <2>1, NothingSent
<1>. QED BY <1>4, <1>5 DEF OnConfirm

(* A phone leaves the hub once it is on record, or its record has failed.     *)
LEMMA OnRevealPhoneInv ==
  ASSUME AdminInv, NEW t \in Tabs, Served(t), OnRevealPhone(t, Head(toHub[t]))
  PROVE  AdminInv'
<1> DEFINE m == Head(toHub[t])
<1>1. UNCHANGED <<config, inventory, runtime, busy, role, pending, drawn>>
  BY DEF OnRevealPhone
<1>2. AdminTypeOK /\ Queued /\ tab' = tab /\ m.record \in Nat
  BY ServedRequest DEF AdminInv, Req
<1>3. \A u \in Tabs : None(toHub'[u], "GET") => None(toHub[u], "GET")
  BY ServedRequest DEF OnRevealPhone
<1>4. ASSUME NEW phone \in Nat, Tell({t}, <<RevealResult(phone)>>), HubStep, history' = history,
             phone = 0 \/ "audit" \in failed' \/ [tab |-> t, record |-> phone] \in audit'
      PROVE  AdminInv'
  <2> DEFINE ms == <<RevealResult(phone)>>
  <2>1. Part(t, ms)
    BY <1>4, PhonePart
  <2>2. toTab' = With(toTab, {t}, ms)
    BY <1>4 DEF Tell
  <2> HIDE DEF ms
  <2>. QED BY <1>1, <1>3, <1>4, <2>1, <2>2, HubOnce DEF Part
<1>5. CASE /\ Written(Logged([tab |-> t, record |-> m.record]) /\ UNCHANGED history, "audit")
           /\ Tell({t}, <<RevealResult(m.record)>>)
  <2>1. /\ history' = history /\ failed \subseteq failed' /\ failed' \subseteq failed \cup {"audit"}
        /\ audit \subseteq audit' /\ audit' \subseteq audit \cup {[tab |-> t, record |-> m.record]}
        /\ [tab |-> t, record |-> m.record] \in audit' \/ "audit" \in failed'
    BY <1>5 DEF Written, Logged
  <2>2. HubStep
    <3>1. [tab |-> t, record |-> m.record] \in Reveal
      BY <1>2 DEF Reveal
    <3>2. AdminTypeOK'
      BY <1>1, <1>2, <2>1, <3>1 DEF AdminTypeOK
    <3>. QED BY <1>1, <1>2, <2>1, <3>2, ServedStep DEF Queued
  <2>. QED BY <1>2, <1>4, <1>5, <2>1, <2>2
<1>6. CASE Tell({t}, <<RevealResult(0)>>) /\ UNCHANGED <<history, audit, failed>>
  <2>1. HubStep
    <3>1. AdminTypeOK'
      BY <1>1, <1>2, <1>6 DEF AdminTypeOK
    <3>. QED BY <1>1, <1>2, <1>6, <3>1, ServedStep DEF Queued
  <2>. QED BY <1>4, <1>6, <2>1
<1>. QED BY <1>5, <1>6 DEF OnRevealPhone

(* A catalog that changes is sent to everybody.                               *)
LEMMA CatalogInv ==
  ASSUME AdminInv, HubStep, NEW cat \in Seq(CourtRecord), Catalog(cat), history' = history,
         \A u \in Tabs : None(toHub'[u], "GET") => None(toHub[u], "GET")
  PROVE  AdminInv'
<1> DEFINE ms == <<Inventory(cat)>>
<1>1. inventory' = cat /\ toTab' = With(toTab, Tabs, ms)
  BY DEF Catalog, Tell
<1>2. \A u \in Tabs : Part(u, ms) /\ ~None(ms, "INVENTORY_UPDATED")
  BY <1>1, CatalogPart
<1>3. ms \in Seq(Ev)
  <2>1. Inventory(cat) \in Ev
    BY EventType
  <2>. QED BY <2>1
<1> HIDE DEF ms
<1>. QED BY <1>1, <1>2, <1>3, HubOnce

(* INVENTORY_ADD.                                                             *)
LEMMA OnAddInv ==
  ASSUME AdminInv, NEW t \in Tabs, Served(t), OnAdd(t, Head(toHub[t]))
  PROVE  AdminInv'
<1>1. UNCHANGED <<config, runtime, busy, history, audit, failed, role, pending>>
  BY DEF OnAdd
<1>2. AdminTypeOK /\ Queued /\ tab' = tab
  BY ServedRequest DEF AdminInv
<1>3. \A u \in Tabs : None(toHub'[u], "GET") => None(toHub[u], "GET")
  BY ServedRequest DEF OnAdd
<1>4. CASE Catalog(Added(inventory)) /\ drawn' = [drawn EXCEPT !.court = @ + 1]
  <2>1. Added(inventory) \in Seq(CourtRecord) /\ inventory' = Added(inventory)
    BY <1>2, <1>4, AddedType DEF AdminTypeOK, Queued, Catalog
  <2>2. drawn' \in [court: Nat, record: Nat, key: Nat]
    <3>1. drawn \in [court: Nat, record: Nat, key: Nat]
      BY <1>2 DEF Queued
    <3>2. drawn' = [court |-> drawn.court + 1, record |-> drawn.record, key |-> drawn.key]
      BY <1>4, <3>1
    <3>. QED BY <3>1, <3>2
  <2>3. AdminTypeOK'
    BY <1>1, <1>2, <2>1 DEF AdminTypeOK
  <2>4. HubStep
    BY <1>1, <2>2, <2>3, ServedStep
  <2>. QED BY <1>1, <1>3, <1>4, <2>1, <2>4, CatalogInv
<1>5. CASE Refuse(t) /\ UNCHANGED <<inventory, drawn>>
  <2>1. HubStep
    <3>1. AdminTypeOK'
      BY <1>1, <1>2, <1>5 DEF AdminTypeOK
    <3>. QED BY <1>1, <1>2, <1>5, <3>1, ServedStep DEF Queued
  <2>. QED BY <1>1, <1>3, <1>5, <2>1, QuietOnce DEF Refuse, Tell, Quiet
<1>. QED BY <1>4, <1>5 DEF OnAdd

(* INVENTORY_MAINTENANCE and INVENTORY_ARCHIVE, done or refused.              *)
LEMMA ChangeInv ==
  ASSUME AdminInv, NEW t \in Tabs, Served(t), NEW c, NEW status \in {"ACTIVE", "MAINTENANCE", "ARCHIVED"},
         Change(t, c, status), Head(toHub[t]).type # "GET"
  PROVE  AdminInv'
<1>1. UNCHANGED <<config, runtime, busy, history, audit, failed, role, pending, drawn>>
  BY DEF Change
<1>2. AdminTypeOK /\ Queued /\ tab' = tab
  BY ServedRequest DEF AdminInv
<1>3. \A u \in Tabs : None(toHub'[u], "GET") => None(toHub[u], "GET")
  BY ServedRequest
<1>4. CASE Catalog(WithStatus(inventory, c, status))
  <2>1. WithStatus(inventory, c, status) \in Seq(CourtRecord) /\ inventory' = WithStatus(inventory, c, status)
    BY <1>2, <1>4, WithStatusType DEF AdminTypeOK, Catalog
  <2>2. AdminTypeOK'
    BY <1>1, <1>2, <2>1 DEF AdminTypeOK
  <2>3. HubStep
    BY <1>1, <1>2, <2>2, ServedStep DEF Queued
  <2>. QED BY <1>1, <1>3, <1>4, <2>1, <2>3, CatalogInv
<1>5. CASE Refuse(t) /\ UNCHANGED inventory
  <2>1. HubStep
    <3>1. AdminTypeOK'
      BY <1>1, <1>2, <1>5 DEF AdminTypeOK
    <3>. QED BY <1>1, <1>2, <1>5, <3>1, ServedStep DEF Queued
  <2>. QED BY <1>1, <1>3, <1>5, <2>1, QuietOnce DEF Refuse, Tell, Quiet
<1>. QED BY <1>4, <1>5 DEF Change, RefusedInUse

(* INVENTORY_MAINTENANCE.                                                     *)
LEMMA OnMaintenanceInv ==
  ASSUME AdminInv, NEW t \in Tabs, Served(t), OnMaintenance(t, Head(toHub[t]))
  PROVE  AdminInv'
<1> DEFINE m == Head(toHub[t])
           status == IF m.on THEN "MAINTENANCE" ELSE "ACTIVE"
<1>1. m.type # "GET" /\ Change(t, m.court, status)
  BY DEF OnMaintenance
<1>2. status \in {"ACTIVE", "MAINTENANCE", "ARCHIVED"}
  OBVIOUS
<1> HIDE DEF status
<1>. QED BY <1>1, <1>2, ChangeInv

(* INVENTORY_ARCHIVE.                                                         *)
LEMMA OnArchiveInv ==
  ASSUME AdminInv, NEW t \in Tabs, Served(t), OnArchive(t, Head(toHub[t]))
  PROVE  AdminInv'
BY ChangeInv DEF OnArchive

(* The desk puts a player on a court; the kiosks hear of the court, the       *)
(* administrator of a refusal.                                                *)
LEMMA OnOccupyInv ==
  ASSUME AdminInv, NEW t \in Tabs, Served(t), OnOccupy(t, Head(toHub[t]))
  PROVE  AdminInv'
<1> DEFINE m      == Head(toHub[t])
           may    == IsAdmin(t) /\ (runtime[m.court] # "none" \/ Active(m.court))
           opened == [runtime EXCEPT ![m.court] = IF @ = "none" THEN "open" ELSE @]
           in     == may /\ config # 0 /\ opened[m.court] = "open" /\ Free(m.court)
           S      == IF in \/ runtime' # runtime THEN Tabs ELSE {}
           T      == IF in THEN {} ELSE {t}
           ms     == <<Event("CLUB_KIOSK_DATA")>>
           ns     == <<Event("ERROR")>>
<1>1. /\ runtime' = IF may THEN opened ELSE runtime
      /\ busy' = IF in THEN busy \cup {[court |-> m.court, key |-> 0]} ELSE busy
      /\ toTab' = With(With(toTab, S, ms), T, ns)
      /\ m.type = "CLUB_ADMIN_OCCUPY"
      /\ UNCHANGED <<config, inventory, history, audit, failed, role, pending, drawn>>
  BY DEF OnOccupy
<1>2. AdminTypeOK /\ Queued /\ tab' = tab /\ m.court \in Nat
  BY ServedRequest DEF AdminInv, Req
<1>3. \A u \in Tabs : None(toHub'[u], "GET") => None(toHub[u], "GET")
  BY <1>1, ServedRequest
<1>4. HubStep
  <2>1. opened \in [CourtIds -> {"none", "open", "finished"}]
    BY <1>2 DEF AdminTypeOK
  <2>2. [court |-> m.court, key |-> 0] \in [court: Nat, key: Nat]
    BY <1>2
  <2>3. AdminTypeOK'
    <3> HIDE DEF opened, may, in, m
    <3>. QED BY <1>1, <1>2, <2>1, <2>2 DEF AdminTypeOK
  <2>. QED BY <1>1, <1>2, <2>3, ServedStep DEF Queued
<1>5. \A u \in Tabs : Part(u, ms) /\ Part(u, ns)
  BY QuietPart DEF Quiet
<1>6. ms \in Seq(Ev) /\ ns \in Seq(Ev)
  <2>1. Event("CLUB_KIOSK_DATA") \in Ev /\ Event("ERROR") \in Ev
    BY EventType DEF Told, Quiet
  <2>. QED BY <2>1
<1> HIDE DEF S, T, ms, ns
<1>. QED BY <1>1, <1>3, <1>4, <1>5, <1>6, HubTwice

(* CLUB_RESET_COURT.                                                          *)
LEMMA OnResetCourtInv ==
  ASSUME AdminInv, NEW t \in Tabs, Served(t), OnResetCourt(t, Head(toHub[t]))
  PROVE  AdminInv'
<1> DEFINE m == Head(toHub[t])
<1>1. /\ UNCHANGED <<config, inventory, busy, history, audit, failed, role, pending, drawn>>
      /\ m.type = "CLUB_RESET_COURT"
      /\ runtime' = runtime \/ runtime' = [runtime EXCEPT ![m.court] = "open"]
      /\ Tell(Tabs, <<Event("CLUB_KIOSK_DATA")>>) \/ Refuse(t)
  BY DEF OnResetCourt
<1>2. AdminTypeOK /\ Queued /\ tab' = tab
  BY ServedRequest DEF AdminInv
<1>3. \A u \in Tabs : None(toHub'[u], "GET") => None(toHub[u], "GET")
  BY <1>1, ServedRequest
<1>4. HubStep
  <2>1. AdminTypeOK'
    <3>1. runtime' \in [CourtIds -> {"none", "open", "finished"}]
      BY <1>1, <1>2 DEF AdminTypeOK
    <3>. QED BY <1>1, <1>2, <3>1 DEF AdminTypeOK
  <2>. QED BY <1>1, <1>2, <2>1, ServedStep DEF Queued
<1>5. CASE Tell(Tabs, <<Event("CLUB_KIOSK_DATA")>>)
  BY <1>1, <1>3, <1>4, <1>5, QuietOnce DEF Tell, Quiet
<1>6. CASE Refuse(t)
  BY <1>1, <1>3, <1>4, <1>6, QuietOnce DEF Refuse, Tell, Quiet
<1>. QED BY <1>1, <1>5, <1>6

(* The end of a session, by its player or by the desk: the administrators     *)
(* have the records with the new one, before whatever else is told.           *)
LEMMA EndedInv ==
  ASSUME AdminInv, NEW s \in busy, NEW e \in Ev, \A u \in Tabs : Part(u, <<e>>), Ended(s, e),
         toHub' = toHub \/ \E t \in Tabs : toHub[t] # <<>> /\ toHub' = [toHub EXCEPT ![t] = Tail(@)],
         UNCHANGED tab, \A u \in Tabs : None(toHub'[u], "GET") => None(toHub[u], "GET")
  PROVE  AdminInv'
<1> DEFINE ms == <<History(history')>>
           ns == <<e>>
<1>1. /\ UNCHANGED <<config, inventory, audit, failed, role, pending>>
      /\ busy' = busy \ {s} /\ drawn' = [drawn EXCEPT !.record = @ + 1]
      /\ runtime' = [runtime EXCEPT ![s.court] = "finished"]
      /\ history' = Append(history, [id |-> drawn'.record, key |-> s.key])
      /\ toTab' = With(With(toTab, role, ms), Tabs, ns)
  BY DEF Ended, Appended
<1>2. AdminTypeOK /\ Queued
  BY DEF AdminInv
<1>3. drawn' \in [court: Nat, record: Nat, key: Nat] /\ drawn'.record \in Nat
  <2>1. drawn \in [court: Nat, record: Nat, key: Nat]
    BY <1>2 DEF Queued
  <2>2. drawn' = [court |-> drawn.court, record |-> drawn.record + 1, key |-> drawn.key]
    BY <1>1, <2>1
  <2>. QED BY <2>1, <2>2
<1>4. history' \in Seq(Record)
  <2>1. s.key \in Nat
    BY <1>2 DEF AdminTypeOK
  <2>2. [id |-> drawn'.record, key |-> s.key] \in Record
    BY <1>3, <2>1 DEF Record
  <2>. QED BY <1>1, <1>2, <2>2 DEF AdminTypeOK
<1>5. HubStep
  <2>1. runtime' \in [CourtIds -> {"none", "open", "finished"}]
    BY <1>1, <1>2 DEF AdminTypeOK
  <2>2. AdminTypeOK'
    BY <1>1, <1>2, <1>4, <2>1 DEF AdminTypeOK
  <2>. QED BY <1>1, <1>3, <2>2 DEF HubStep
<1>6. \A u \in role : Part(u, ms) /\ ~None(ms, "CLUB_SESSION_HISTORY")
  BY <1>1, <1>4, RecordsPart
<1>7. ms \in Seq(Ev) /\ ns \in Seq(Ev)
  <2>1. History(history') \in Ev
    BY <1>4, EventType
  <2>. QED BY <2>1
<1>8. \A u \in Tabs : Part(u, ns)
  OBVIOUS
<1>9. toTab' = With(With(toTab, role, ms), Tabs, ns)
  BY <1>1
<1> HIDE DEF ms, ns
<1>. QED BY <1>1, <1>5, <1>6, <1>7, <1>8, <1>9, HubTwice

(* INVENTORY_FORCE_END: the records go to administrators, the courts to       *)
(* everybody.                                                                 *)
LEMMA OnForceEndInv ==
  ASSUME AdminInv, NEW t \in Tabs, Served(t), OnForceEnd(t, Head(toHub[t]))
  PROVE  AdminInv'
<1>1. AdminTypeOK /\ Queued /\ tab' = tab
  BY ServedRequest DEF AdminInv
<1>2. /\ \A u \in Tabs : None(toHub'[u], "GET") => None(toHub[u], "GET")
      /\ toHub[t] # <<>> /\ toHub' = [toHub EXCEPT ![t] = Tail(toHub[t])]
  BY ServedRequest DEF OnForceEnd
<1>3. ASSUME NEW s \in busy, Ended(s, Inventory(inventory)) PROVE AdminInv'
  <2>1. inventory' = inventory
    BY <1>3 DEF Ended
  <2>2. Inventory(inventory) \in Ev
    BY <1>1, EventType DEF AdminTypeOK
  <2>3. \A u \in Tabs : Part(u, <<Inventory(inventory)>>)
    BY <1>1, <2>1, CatalogPart DEF AdminTypeOK
  <2>. QED BY <1>1, <1>2, <1>3, <2>2, <2>3, EndedInv
<1>4. CASE Refuse(t) /\ UNCHANGED hub
  <2>1. HubStep
    <3>1. AdminTypeOK'
      BY <1>1, <1>4 DEF AdminTypeOK, hub
    <3>. QED BY <1>1, <1>4, <3>1, ServedStep DEF Queued, hub
  <2>. QED BY <1>2, <1>4, <2>1, QuietOnce DEF Refuse, Tell, Quiet, hub
<1>. QED BY <1>3, <1>4 DEF OnForceEnd

(* A player joins: no court of the catalog changes.                           *)
LEMMA PlayerJoinsInv ==
  ASSUME AdminInv, NEW c \in CourtIds, PlayerJoins(c)
  PROVE  AdminInv'
<1>1. /\ UNCHANGED <<config, inventory, runtime, history, audit, failed, role, pending, drawn, tab, toHub>>
      /\ busy' = busy \cup {[court |-> c, key |-> config]}
      /\ toTab' = With(toTab, Tabs, <<Event("CLUB_KIOSK_DATA")>>)
  BY DEF PlayerJoins, Seal, Tell
<1>2. AdminTypeOK /\ Queued
  BY DEF AdminInv
<1>3. HubStep
  <2>1. [court |-> c, key |-> config] \in [court: Nat, key: Nat]
    BY <1>2 DEF AdminTypeOK, CourtIds
  <2>2. AdminTypeOK'
    BY <1>1, <1>2, <2>1 DEF AdminTypeOK
  <2>. QED BY <1>1, <1>2, <2>2 DEF HubStep, Queued
<1>. QED BY <1>1, <1>3, QuietOnce DEF Quiet

(* A player ends his session.                                                 *)
LEMMA PlayerEndsInv ==
  ASSUME AdminInv, NEW s \in busy, PlayerEnds(s)
  PROVE  AdminInv'
<1>1. /\ Ended(s, Event("CLUB_KIOSK_DATA")) /\ tab' = tab /\ toHub' = toHub
  BY DEF PlayerEnds
<1>2. Event("CLUB_KIOSK_DATA") \in Ev
  BY EventType DEF Told, Quiet
<1>3. \A u \in Tabs : Part(u, <<Event("CLUB_KIOSK_DATA")>>)
  BY QuietPart DEF Quiet
<1>. QED BY <1>1, <1>2, <1>3, EndedInv

(* Whatever request is served.                                                *)
LEMMA ServeInv ==
  ASSUME AdminInv, NEW t \in Tabs, Serve(t)
  PROVE  AdminInv'
BY OnGetInv, OnVerifyAdminInv, OnSetupInv, OnResetSetupInv, OnClearHistoryInv, OnConfirmInv,
   OnRevealPhoneInv, OnAddInv, OnMaintenanceInv, OnArchiveInv, OnOccupyInv, OnResetCourtInv,
   OnForceEndInv DEF Serve, Served

(* A request sent comes behind the others.                                    *)
LEMMA AppendedRequest ==
  ASSUME NEW q \in Seq(Req), NEW m \in Req
  PROVE  /\ Append(q, m) \in Seq(Req)
         /\ None(Append(q, m), "GET") <=> None(q, "GET") /\ m.type # "GET"
<1> DEFINE r == Append(q, m)
<1>1. /\ r \in Seq(Req) /\ Len(q) \in Nat /\ DOMAIN q = 1 .. Len(q)
      /\ DOMAIN r = 1 .. (Len(q) + 1) /\ r[Len(q) + 1] = m
      /\ \A i \in 1 .. Len(q) : r[i] = q[i]
  OBVIOUS
<1>2. \A i \in 1 .. (Len(q) + 1) : i \in 1 .. Len(q) \/ i = Len(q) + 1
  BY <1>1
<1>3. Len(q) + 1 \in DOMAIN r /\ \A i \in DOMAIN q : i \in DOMAIN r
  BY <1>1
<1> HIDE DEF r
<1>4. None(r, "GET") <=> None(q, "GET") /\ m.type # "GET"
  BY <1>1, <1>2, <1>3 DEF None
<1>. QED BY <1>1, <1>4 DEF r

(* A step of a tab alone, which may send a request.                           *)
LEMMA TabLemma ==
  ASSUME AdminInv, NEW t \in Tabs, NEW s \in Tab, tab' = [tab EXCEPT ![t] = s],
         UNCHANGED <<hub, toTab>>, s.up = tab[t].up,
         toHub' = toHub \/ (tab[t].up /\ \E m \in Req : toHub' = [toHub EXCEPT ![t] = Append(@, m)]),
         s.isAdmin => tab[t].isAdmin /\ s.page = "admin" /\ s.sessions = tab[t].sessions,
         s.revealed.phone \in {0, tab[t].revealed.phone},
         s.page = "admin" /\ s.up =>
           (tab[t].page = "admin" /\ s.catalog = tab[t].catalog) \/ ~None(toHub'[t], "GET")
  PROVE  AdminInv'
<1>1. AdminTypeOK /\ Queued /\ UpIsLive /\ Entitled /\ DashboardNeedsRole /\ HistoryFollows
      /\ CatalogInOrder /\ RecordsInOrder /\ RevealsAreLogged
  BY DEF AdminInv
<1>2. UNCHANGED <<config, inventory, runtime, busy, history, audit, failed, role, pending, drawn, toTab>>
  BY DEF hub
<1>3. tab'[t] = s /\ (\A u \in Tabs \ {t} : tab'[u] = tab[u]) /\ tab' \in [Tabs -> Tab]
  BY <1>1 DEF AdminTypeOK
<1>4. \A u \in Tabs : tab'[u].up = tab[u].up
  BY <1>3
<1>5. AdminTypeOK'
  BY <1>1, <1>2, <1>3, <1>4 DEF AdminTypeOK
<1>6. /\ toHub' \in [Tabs -> Seq(Req)]
      /\ \A u \in Tabs : /\ None(toHub'[u], "GET") => None(toHub[u], "GET")
                         /\ ~tab[u].up => toHub'[u] = toHub[u]
  <2>1. toHub \in [Tabs -> Seq(Req)]
    BY <1>1 DEF Queued
  <2>2. CASE toHub' = toHub
    BY <2>1, <2>2
  <2>3. ASSUME tab[t].up, NEW m \in Req, toHub' = [toHub EXCEPT ![t] = Append(@, m)]
        PROVE  /\ toHub' \in [Tabs -> Seq(Req)]
               /\ \A u \in Tabs : /\ None(toHub'[u], "GET") => None(toHub[u], "GET")
                                  /\ ~tab[u].up => toHub'[u] = toHub[u]
    <3>1. toHub'[t] = Append(toHub[t], m) /\ \A u \in Tabs \ {t} : toHub'[u] = toHub[u]
      BY <2>1, <2>3
    <3>2. toHub[t] \in Seq(Req) /\ toHub'[t] \in Seq(Req) /\ (None(toHub'[t], "GET") => None(toHub[t], "GET"))
      BY <2>1, <3>1, AppendedRequest
    <3>3. toHub' \in [Tabs -> Seq(Req)]
      BY <2>1, <2>3, <3>1, <3>2
    <3>. QED BY <2>3, <3>1, <3>2, <3>3
  <2>. QED BY <2>2, <2>3
<1>7. Queued'
  BY <1>1, <1>2, <1>6 DEF Queued
<1>8. UpIsLive'
  BY <1>1, <1>2, <1>4, <1>6 DEF UpIsLive
<1>9. Entitled' /\ HistoryFollows'
  BY <1>1, <1>2 DEF Entitled, HistoryFollows
<1>10. DashboardNeedsRole'
  BY <1>1, <1>2, <1>3 DEF DashboardNeedsRole
<1>11. CatalogInOrder'
  BY <1>1, <1>2, <1>3, <1>6 DEF CatalogInOrder
<1>12. RecordsInOrder'
  BY <1>1, <1>2, <1>3 DEF RecordsInOrder
<1>13. RevealsAreLogged'
  <2>1. SUFFICES ASSUME "audit" \notin failed', NEW u \in Tabs, NEW p \in PhonesAt(u)' \ {0}
                 PROVE  [tab |-> u, record |-> p] \in audit'
    BY DEF RevealsAreLogged
  <2>2. p \in PhonesAt(u)
    BY <1>2, <1>3, <2>1 DEF PhonesAt
  <2>. QED BY <1>1, <1>2, <2>1, <2>2 DEF RevealsAreLogged
<1>. QED BY <1>5, <1>7, <1>8, <1>9, <1>10, <1>11, <1>12, <1>13 DEF AdminInv

(* A page just mounted is no dashboard and shows no phone.                    *)
LEMMA MountedType ==
  ASSUME NEW s \in Tab, NEW page \in {"away", "loading", "admin", "setup"}
  PROVE  /\ Mounted(s, page) \in Tab /\ Mounted(s, page).up = s.up /\ Mounted(s, page).page = page
         /\ ~Mounted(s, page).isAdmin /\ Mounted(s, page).revealed.phone = 0
         /\ Mounted(s, page).token = s.token /\ Mounted(s, page).shake = s.shake
<1>1. <<>> \in Seq(CourtRecord) /\ <<>> \in Seq(Record) /\ 0 \in Nat
  OBVIOUS
<1>2. NoReveal \in [session: Nat, phone: Nat] /\ NoReveal.phone = 0
  BY DEF NoReveal
<1> DEFINE a == [s EXCEPT !.page = page, !.isAdmin = FALSE, !.verifying = FALSE, !.resetting = FALSE,
                          !.loading = FALSE]
           b == [a EXCEPT !.asking = FALSE, !.wanted = 0, !.revealed = NoReveal]
           c == [b EXCEPT !.catalog = <<>>, !.sessions = <<>>]
<1>3. a \in Tab /\ a.page = page /\ ~a.isAdmin /\ a.up = s.up /\ a.token = s.token /\ a.shake = s.shake
  BY DEF Tab
<1>4. Mounted(s, page) = c
  BY DEF Mounted
<1> HIDE DEF a
<1>5. b \in Tab /\ b.page = page /\ ~b.isAdmin /\ b.revealed.phone = 0
      /\ b.up = s.up /\ b.token = s.token /\ b.shake = s.shake
  BY <1>1, <1>2, <1>3 DEF Tab
<1> HIDE DEF b
<1>6. c \in Tab /\ c.page = page /\ ~c.isAdmin /\ c.revealed.phone = 0
      /\ c.up = s.up /\ c.token = s.token /\ c.shake = s.shake
  BY <1>1, <1>5 DEF Tab
<1>. QED BY <1>4, <1>6

(* The requests of the pages.                                                 *)
LEMMA RequestType ==
  /\ \A type \in Asked : Request(type) \in Req /\ Request(type).type = type
  /\ \A good \in BOOLEAN : [Request("CLUB_VERIFY_ADMIN") EXCEPT !.good = good] \in Req
  /\ \A id \in Nat : [Request("CLUB_REVEAL_PHONE") EXCEPT !.record = id] \in Req
  /\ \A type \in Asked : \A id \in Nat : [Request(type) EXCEPT !.court = id] \in Req
  /\ \A id \in Nat : \A on \in BOOLEAN :
       [Request("INVENTORY_MAINTENANCE") EXCEPT !.court = id, !.on = on] \in Req
BY DEF Request, Req, Asked

(* r differs from s in what no invariant asks.                                *)
Alike(r, s) ==
  /\ r \in Tab /\ r.up = s.up /\ r.page = s.page /\ r.isAdmin = s.isAdmin
  /\ r.sessions = s.sessions /\ r.catalog = s.catalog /\ r.revealed = s.revealed

(* The flags of a page that only say what it waits for.                       *)
LEMMA Flagged ==
  ASSUME NEW s \in Tab, NEW b \in BOOLEAN
  PROVE  /\ Alike([s EXCEPT !.verifying = b], s) /\ Alike([s EXCEPT !.resetting = b], s)
         /\ Alike([s EXCEPT !.loading = b], s) /\ Alike([s EXCEPT !.asking = b], s)
         /\ Alike([s EXCEPT !.verifying = b, !.resetting = b], s)
         /\ \A id \in Nat : Alike([s EXCEPT !.wanted = id], s)
BY DEF Alike, Tab

(* A page that changes such flags and perhaps sends a request.                *)
LEMMA AlikeInv ==
  ASSUME AdminInv, NEW t \in Tabs, NEW r, Alike(r, tab[t]), tab' = [tab EXCEPT ![t] = r],
         UNCHANGED <<hub, toTab>>,
         toHub' = toHub \/ (tab[t].up /\ \E m \in Req : toHub' = [toHub EXCEPT ![t] = Append(@, m)])
  PROVE  AdminInv'
<1>1. AdminTypeOK /\ Queued /\ DashboardNeedsRole
  BY DEF AdminInv
<1>2. tab[t] \in Tab /\ tab[t].revealed.phone \in {0, tab[t].revealed.phone}
  BY <1>1 DEF AdminTypeOK
<1>. QED BY <1>1, <1>2, TabLemma DEF Alike, DashboardNeedsRole

(* A user's act that sends a request and has the page wait.                   *)
LEMMA AsksInv ==
  ASSUME AdminInv, NEW t \in Tabs, NEW r, Alike(r, tab[t]), tab' = [tab EXCEPT ![t] = r],
         UNCHANGED <<hub, toTab>>, tab[t].up, NEW m \in Req, Send(t, m)
  PROVE  AdminInv'
BY AlikeInv DEF Send

(* What users and timers do on a page by such a step.                         *)
LEMMA PageInv ==
  ASSUME AdminInv, NEW t \in Tabs,
         \/ \E good \in BOOLEAN : TypePin(t, good)
         \/ AskReset(t) \/ SubmitSetup(t) \/ AskClear(t) \/ ConfirmClear(t) \/ AskingEnds(t)
         \/ \E id \in 1 .. MaxRecords : RevealPhone(t, id)
         \/ AddCourt(t) \/ Timeout(t)
  PROVE  AdminInv'
<1>1. tab \in [Tabs -> Tab] /\ tab[t] \in Tab
  BY DEF AdminInv, AdminTypeOK
<1>2. ASSUME NEW good \in BOOLEAN, TypePin(t, good) PROVE AdminInv'
  <2>1. tab' = [tab EXCEPT ![t] = [tab[t] EXCEPT !.verifying = TRUE]]
    BY <1>1, <1>2 DEF TypePin
  <2>. QED BY <1>1, <1>2, <2>1, Flagged, AsksInv, RequestType DEF TypePin, PinScreen, On
<1>3. CASE AskReset(t)
  <2>1. tab' = [tab EXCEPT ![t] = [tab[t] EXCEPT !.resetting = TRUE]]
    BY <1>1, <1>3 DEF AskReset
  <2>. QED BY <1>1, <1>3, <2>1, Flagged, AsksInv, RequestType DEF AskReset, Dashboard, On, Asked
<1>4. CASE SubmitSetup(t)
  <2>1. tab' = [tab EXCEPT ![t] = [tab[t] EXCEPT !.loading = TRUE]]
    BY <1>1, <1>4 DEF SubmitSetup
  <2>. QED BY <1>1, <1>4, <2>1, Flagged, AsksInv, RequestType DEF SubmitSetup, On, Asked
<1>5. CASE AskClear(t)
  <2>1. tab' = [tab EXCEPT ![t] = [tab[t] EXCEPT !.asking = TRUE]]
    BY <1>1, <1>5 DEF AskClear
  <2>. QED BY <1>1, <1>5, <2>1, Flagged, AsksInv, RequestType DEF AskClear, Dashboard, On, Asked
<1>6. CASE ConfirmClear(t)
  <2>1. tab' = [tab EXCEPT ![t] = [tab[t] EXCEPT !.asking = FALSE]]
    BY <1>1, <1>6 DEF ConfirmClear
  <2>. QED BY <1>1, <1>6, <2>1, Flagged, AsksInv, RequestType DEF ConfirmClear, Dashboard, On, Asked
<1>7. CASE AskingEnds(t)
  <2>1. tab' = [tab EXCEPT ![t] = [tab[t] EXCEPT !.asking = FALSE]]
    BY <1>1, <1>7 DEF AskingEnds
  <2>. QED BY <1>1, <1>7, <2>1, Flagged, AlikeInv DEF AskingEnds
<1>8. ASSUME NEW id \in 1 .. MaxRecords, RevealPhone(t, id) PROVE AdminInv'
  <2>1. tab' = [tab EXCEPT ![t] = [tab[t] EXCEPT !.wanted = id]]
    BY <1>1, <1>8 DEF RevealPhone
  <2>2. id \in Nat
    BY ClubAdminAssumption
  <2>. QED BY <1>1, <1>8, <2>1, <2>2, Flagged, AsksInv, RequestType DEF RevealPhone, Dashboard, On
<1>9. CASE AddCourt(t)
  <2>1. tab' = [tab EXCEPT ![t] = [tab[t] EXCEPT !.loading = TRUE]]
    BY <1>1, <1>9 DEF AddCourt, Emit
  <2>. QED BY <1>1, <1>9, <2>1, Flagged, AsksInv, RequestType DEF AddCourt, Emit, Dashboard, On, Asked
<1>10. CASE Timeout(t)
  <2>1. tab' = [tab EXCEPT ![t] = [tab[t] EXCEPT !.verifying = FALSE, !.resetting = FALSE]]
    BY <1>1, <1>10 DEF Timeout
  <2>. QED BY <1>1, <1>10, <2>1, Flagged, AlikeInv DEF Timeout
<1>. QED BY <1>2, <1>3, <1>4, <1>5, <1>6, <1>7, <1>8, <1>9, <1>10

(* The buttons of a row of the inventory.                                     *)
LEMMA ButtonsInv ==
  ASSUME AdminInv, NEW t \in Tabs, NEW row \in Shown(t), Buttons(t, row)
  PROVE  AdminInv'
<1>1. tab \in [Tabs -> Tab] /\ tab[t] \in Tab
  BY DEF AdminInv, AdminTypeOK
<1>2. row.id \in Nat
  <2>1. tab[t].catalog \in Seq(CourtRecord)
    BY <1>1 DEF Tab
  <2>2. \A i \in DOMAIN tab[t].catalog : tab[t].catalog[i] \in CourtRecord
    BY <2>1
  <2>. QED BY <2>2 DEF Shown, RowsAt, CourtRecord
<1>3. ASSUME NEW m \in Req, Emit(t, m) PROVE AdminInv'
  <2>1. tab' = [tab EXCEPT ![t] = [tab[t] EXCEPT !.loading = TRUE]]
    BY <1>1, <1>3 DEF Emit
  <2>. QED BY <1>1, <1>3, <2>1, Flagged, AsksInv DEF Emit, Dashboard, On
<1>4. PICK m \in Req : Emit(t, m)
  BY <1>2, RequestType DEF Buttons, ToggleMaintenance, OnRow, Confirmed, Asked
<1>. QED BY <1>3, <1>4

(* A phone is put away.                                                       *)
LEMMA ClosePhoneInv ==
  ASSUME AdminInv, NEW t \in Tabs, ClosePhone(t)
  PROVE  AdminInv'
<1>1. tab \in [Tabs -> Tab] /\ tab[t] \in Tab /\ DashboardNeedsRole
  BY DEF AdminInv, AdminTypeOK
<1> DEFINE s == [tab[t] EXCEPT !.revealed = NoReveal]
<1>2. tab' = [tab EXCEPT ![t] = s] /\ UNCHANGED <<hub, toHub, toTab>>
  BY <1>1 DEF ClosePhone
<1>3. /\ s \in Tab /\ s.up = tab[t].up /\ s.page = tab[t].page /\ s.isAdmin = tab[t].isAdmin
      /\ s.sessions = tab[t].sessions /\ s.catalog = tab[t].catalog /\ s.revealed.phone = 0
  BY <1>1 DEF Tab, NoReveal
<1> HIDE DEF s
<1>. QED BY <1>1, <1>2, <1>3, TabLemma DEF DashboardNeedsRole

(* Pages left, opened and loaded: one that comes up asks for the courts, and  *)
(* is no dashboard yet.                                                       *)
LEMMA PagesComeAndGo ==
  ASSUME AdminInv, NEW t \in Tabs, Leave(t) \/ Open(t) \/ PageLoads(t)
  PROVE  AdminInv'
<1>1. tab \in [Tabs -> Tab] /\ tab[t] \in Tab /\ DashboardNeedsRole /\ toHub \in [Tabs -> Seq(Req)]
  BY DEF AdminInv, AdminTypeOK, Queued
<1>2. CASE Leave(t)
  <2> DEFINE s == Mounted(tab[t], "away")
  <2>1. tab' = [tab EXCEPT ![t] = s] /\ UNCHANGED <<hub, toHub, toTab>>
    BY <1>1, <1>2 DEF Leave
  <2>2. s \in Tab /\ s.up = tab[t].up /\ s.page = "away" /\ ~s.isAdmin /\ s.revealed.phone = 0
    BY <1>1, MountedType
  <2> HIDE DEF s
  <2>. QED BY <2>1, <2>2, TabLemma
<1>3. ASSUME Asks(t)
      PROVE  /\ toHub' = toHub \/ (tab[t].up /\ \E m \in Req : toHub' = [toHub EXCEPT ![t] = Append(@, m)])
             /\ tab[t].up => ~None(toHub'[t], "GET")
  <2>1. Request("GET") \in Req /\ Request("GET").type = "GET"
    BY RequestType DEF Asked
  <2>2. ASSUME tab[t].up, toHub' = [toHub EXCEPT ![t] = Append(@, Request("GET"))]
        PROVE  ~None(toHub'[t], "GET")
    <3>1. toHub'[t] = Append(toHub[t], Request("GET")) /\ toHub[t] \in Seq(Req)
      BY <1>1, <2>2
    <3>. QED BY <2>1, <3>1, AppendedRequest
  <2>. QED BY <1>3, <2>1, <2>2 DEF Asks, Send
<1>4. CASE Open(t)
  <2> DEFINE s == Mounted(tab[t], "admin")
  <2>1. tab' = [tab EXCEPT ![t] = s] /\ UNCHANGED <<hub, toTab>> /\ Asks(t)
    BY <1>1, <1>4 DEF Open
  <2>2. s \in Tab /\ s.up = tab[t].up /\ s.page = "admin" /\ ~s.isAdmin /\ s.revealed.phone = 0
    BY <1>1, MountedType
  <2> HIDE DEF s
  <2>. QED BY <1>3, <2>1, <2>2, TabLemma
<1>5. CASE PageLoads(t)
  <2> DEFINE s == [tab[t] EXCEPT !.page = "admin"]
  <2>1. tab' = [tab EXCEPT ![t] = s] /\ UNCHANGED <<hub, toTab>> /\ Asks(t) /\ tab[t].page = "loading"
    BY <1>1, <1>5 DEF PageLoads
  <2>2. s \in Tab /\ s.up = tab[t].up /\ s.isAdmin = tab[t].isAdmin /\ s.revealed = tab[t].revealed
    BY <1>1 DEF Tab
  <2>3. ~tab[t].isAdmin
    BY <1>1, <2>1 DEF DashboardNeedsRole
  <2> HIDE DEF s
  <2>. QED BY <1>3, <2>1, <2>2, <2>3, TabLemma
<1>. QED BY <1>2, <1>4, <1>5

(* A connection that changes hands: t comes back with what its queue says of  *)
(* the present, or goes without any.                                          *)
LEMMA LoseInv ==
  ASSUME AdminInv, NEW t \in Tabs, NEW s \in Tab, Lose(t, s), ~s.isAdmin,
         s.revealed.phone \in {0, tab[t].revealed.phone}
  PROVE  AdminInv'
<1>1. AdminTypeOK /\ Queued /\ UpIsLive /\ Entitled /\ DashboardNeedsRole /\ HistoryFollows
      /\ CatalogInOrder /\ RecordsInOrder /\ RevealsAreLogged
  BY DEF AdminInv
<1> DEFINE r == [s EXCEPT !.up = FALSE]
<1>2. /\ role' = role \ {t} /\ pending' = pending \ {t}
      /\ toHub' = [toHub EXCEPT ![t] = <<>>] /\ toTab' = [toTab EXCEPT ![t] = <<>>]
      /\ tab' = [tab EXCEPT ![t] = r]
      /\ UNCHANGED <<config, inventory, runtime, busy, history, audit, failed, drawn>>
  BY DEF Lose
<1>3. r \in Tab /\ ~r.up /\ ~r.isAdmin /\ r.revealed.phone \in {0, tab[t].revealed.phone}
  BY DEF Tab
<1> HIDE DEF r
<1>4. /\ tab'[t] = r /\ (\A u \in Tabs \ {t} : tab'[u] = tab[u]) /\ tab' \in [Tabs -> Tab]
      /\ toHub'[t] = <<>> /\ \A u \in Tabs \ {t} : toHub'[u] = toHub[u]
      /\ toTab'[t] = <<>> /\ \A u \in Tabs \ {t} : toTab'[u] = toTab[u]
  BY <1>1, <1>2, <1>3 DEF AdminTypeOK, Queued
<1>5. AdminTypeOK'
  <2>1. role' \subseteq {u \in Tabs : tab'[u].up} /\ pending' \subseteq role'
    BY <1>1, <1>2, <1>4 DEF AdminTypeOK
  <2>. QED BY <1>1, <1>2, <1>4, <2>1 DEF AdminTypeOK
<1>6. Queued'
  <2>1. <<>> \in Seq(Req) /\ <<>> \in Seq(Ev)
    OBVIOUS
  <2>. QED BY <1>1, <1>2, <2>1 DEF Queued
<1>7. UpIsLive' /\ DashboardNeedsRole'
  BY <1>1, <1>2, <1>3, <1>4 DEF UpIsLive, DashboardNeedsRole
<1>8. Entitled' /\ HistoryFollows'
  BY <1>1, <1>2, <1>4, EmptyQueue DEF Entitled, HistoryFollows
<1>9. CatalogInOrder' /\ RecordsInOrder'
  BY <1>1, <1>2, <1>3, <1>4, EmptyQueue DEF CatalogInOrder, RecordsInOrder
<1>10. RevealsAreLogged'
  <2>1. SUFFICES ASSUME "audit" \notin failed', NEW u \in Tabs, NEW p \in PhonesAt(u)' \ {0}
                 PROVE  [tab |-> u, record |-> p] \in audit'
    BY DEF RevealsAreLogged
  <2>2. p \in PhonesAt(u)
    BY <1>3, <1>4, <2>1 DEF PhonesAt
  <2>. QED BY <1>1, <1>2, <2>1, <2>2 DEF RevealsAreLogged
<1>. QED BY <1>5, <1>6, <1>7, <1>8, <1>9, <1>10 DEF AdminInv

(* A connection is lost, or the page loaded anew.                             *)
LEMMA DropReloadInv ==
  ASSUME AdminInv, NEW t \in Tabs, Drop(t) \/ Reload(t)
  PROVE  AdminInv'
<1>1. tab[t] \in Tab
  BY DEF AdminInv, AdminTypeOK
<1>2. CASE Drop(t)
  <2> DEFINE s == Disconnected(tab[t])
  <2>1. s \in Tab /\ ~s.isAdmin /\ s.revealed = tab[t].revealed
    BY <1>1 DEF Disconnected, Tab
  <2>2. Lose(t, s)
    BY <1>2 DEF Drop
  <2> HIDE DEF s
  <2>. QED BY <2>1, <2>2, LoseInv
<1>3. CASE Reload(t)
  <2> DEFINE b == Mounted(tab[t], "loading")
             s == [b EXCEPT !.shake = tab[t].token]
  <2>1. b \in Tab /\ ~b.isAdmin /\ b.revealed.phone = 0 /\ tab[t].token \in BOOLEAN
    BY <1>1, MountedType DEF Tab
  <2>2. Lose(t, s)
    BY <1>3 DEF Reload
  <2> HIDE DEF b
  <2>3. s \in Tab /\ ~s.isAdmin /\ s.revealed.phone = 0
    BY <2>1 DEF Tab
  <2> HIDE DEF s
  <2>. QED BY <2>2, <2>3, LoseInv
<1>. QED BY <1>2, <1>3

(* A connection brings the courts, and role and records to a token.           *)
LEMMA ConnectInv ==
  ASSUME AdminInv, NEW t \in Tabs, Connect(t)
  PROVE  AdminInv'
<1>1. AdminTypeOK /\ Queued /\ UpIsLive /\ Entitled /\ DashboardNeedsRole /\ HistoryFollows
      /\ CatalogInOrder /\ RecordsInOrder /\ RevealsAreLogged
  BY DEF AdminInv
<1> DEFINE r == [tab[t] EXCEPT !.up = TRUE]
           ms == <<Inventory(inventory)>> \o
                   IF tab[t].shake THEN <<Event("CLUB_SESSION_RESTORED"), History(history)>> ELSE <<>>
<1>2. /\ ~tab[t].up /\ role \subseteq role' /\ role' \subseteq role \cup {t}
      /\ (tab[t].shake => t \in role')
      /\ toTab' = [toTab EXCEPT ![t] = ms]
      /\ toHub' = IF tab[t].page = "admin" THEN [toHub EXCEPT ![t] = Append(@, Request("GET"))] ELSE toHub
      /\ UNCHANGED <<config, inventory, runtime, busy, history, audit, failed, pending, drawn>>
  BY DEF Connect, Send
<1>3. tab[t] \in Tab /\ tab' = [tab EXCEPT ![t] = r] /\ toHub[t] = <<>>
  BY <1>1, <1>2 DEF Connect, AdminTypeOK, UpIsLive
<1>4. r \in Tab /\ r.up /\ r.page = tab[t].page /\ r.isAdmin = tab[t].isAdmin /\ r.revealed = tab[t].revealed
  BY <1>3 DEF Tab
<1>5. ~tab[t].isAdmin
  BY <1>1, <1>2 DEF DashboardNeedsRole, AdminTypeOK
<1>6. Part(t, ms) /\ ~None(ms, "INVENTORY_UPDATED")
  <2> DEFINE p == <<Inventory(inventory)>>
             q == IF tab[t].shake THEN <<Event("CLUB_SESSION_RESTORED"), History(history)>> ELSE <<>>
  <2>1. Part(t, p) /\ ~None(p, "INVENTORY_UPDATED")
    BY <1>1, <1>2, CatalogPart DEF AdminTypeOK
  <2>2. Part(t, q)
    <3>1. CASE tab[t].shake
      BY <1>1, <1>2, <3>1, EntryPart DEF AdminTypeOK, Entry
    <3>2. CASE ~tab[t].shake
      BY <3>2, QuietPart
    <3>. QED BY <3>1, <3>2
  <2> HIDE DEF p, q
  <2>3. Part(t, p \o q) /\ ~None(p \o q, "INVENTORY_UPDATED")
    BY <2>1, <2>2, PartsJoined
  <2>. QED BY <2>3 DEF p, q
<1> HIDE DEF r, ms
<1>7. ms \in Seq(Ev)
  BY <1>6 DEF Part
<1>8. Request("GET") \in Req /\ Request("GET").type = "GET"
  BY RequestType DEF Asked
<1>9. /\ toHub' \in [Tabs -> Seq(Req)] /\ \A u \in Tabs \ {t} : toHub'[u] = toHub[u]
      /\ tab[t].page = "admin" => ~None(toHub'[t], "GET")
  <2>1. CASE tab[t].page = "admin"
    <3>1. toHub \in [Tabs -> Seq(Req)]
      BY <1>1 DEF Queued
    <3>2. Append(toHub[t], Request("GET")) \in Seq(Req) /\ ~None(Append(toHub[t], Request("GET")), "GET")
      BY <1>8, <3>1, AppendedRequest
    <3>. QED BY <1>2, <2>1, <3>1, <3>2
  <2>2. CASE tab[t].page # "admin"
    BY <1>1, <1>2, <2>2 DEF Queued
  <2>. QED BY <2>1, <2>2
<1>10. /\ tab'[t] = r /\ (\A u \in Tabs \ {t} : tab'[u] = tab[u]) /\ tab' \in [Tabs -> Tab]
       /\ toTab'[t] = ms /\ (\A u \in Tabs \ {t} : toTab'[u] = toTab[u]) /\ toTab' \in [Tabs -> Seq(Ev)]
  <2>1. tab \in [Tabs -> Tab] /\ toTab \in [Tabs -> Seq(Ev)] /\ t \in Tabs
    BY <1>1 DEF AdminTypeOK, Queued
  <2>2. r \in Tab /\ tab' = [tab EXCEPT ![t] = r]
    BY <1>3, <1>4
  <2>3. ms \in Seq(Ev) /\ toTab' = [toTab EXCEPT ![t] = ms]
    BY <1>2, <1>7
  <2>4. tab'[t] = r /\ (\A u \in Tabs \ {t} : tab'[u] = tab[u]) /\ tab' \in [Tabs -> Tab]
    BY ONLY <2>1, <2>2
  <2>5. toTab'[t] = ms /\ (\A u \in Tabs \ {t} : toTab'[u] = toTab[u]) /\ toTab' \in [Tabs -> Seq(Ev)]
    BY ONLY <2>1, <2>3
  <2>. QED BY <2>4, <2>5
<1>11. AdminTypeOK'
  <2>1. role' \subseteq {u \in Tabs : tab'[u].up} /\ pending' \subseteq role'
    BY <1>1, <1>2, <1>4, <1>10 DEF AdminTypeOK
  <2>. QED BY <1>1, <1>2, <1>10, <2>1 DEF AdminTypeOK
<1>12. Queued'
  BY <1>1, <1>2, <1>9, <1>10 DEF Queued
<1>13. UpIsLive' /\ DashboardNeedsRole'
  <2>1. UpIsLive /\ DashboardNeedsRole
    BY <1>1
  <2>2. role \subseteq role' /\ UNCHANGED failed
    BY <1>2
  <2>3. r.up /\ ~r.isAdmin
    BY <1>4, <1>5
  <2>4. UpIsLive'
    BY ONLY <1>9, <1>10, <2>1, <2>3 DEF UpIsLive
  <2>5. DashboardNeedsRole'
    BY ONLY <1>10, <2>1, <2>2, <2>3 DEF DashboardNeedsRole
  <2>. QED BY <2>4, <2>5
<1>14. Entitled' /\ HistoryFollows'
  BY <1>1, <1>2, <1>6, <1>10 DEF Entitled, HistoryFollows, Part
<1>15. CatalogInOrder'
  BY <1>1, <1>2, <1>4, <1>6, <1>9, <1>10 DEF CatalogInOrder, Part
<1>16. RecordsInOrder'
  BY <1>1, <1>2, <1>4, <1>5, <1>6, <1>10 DEF RecordsInOrder, Part
<1>17. RevealsAreLogged'
  <2>1. SUFFICES ASSUME "audit" \notin failed', NEW u \in Tabs, NEW p \in PhonesAt(u)' \ {0}
                 PROVE  [tab |-> u, record |-> p] \in audit'
    BY DEF RevealsAreLogged
  <2>2. p \in PhonesAt(u) \/ (u = t /\ \E i \in DOMAIN ms : p = ms[i].phone)
    BY <1>4, <1>10, <2>1 DEF PhonesAt
  <2>. QED BY <1>1, <1>2, <1>6, <2>1, <2>2 DEF RevealsAreLogged, Part
<1>. QED BY <1>11, <1>12, <1>13, <1>14, <1>15, <1>16, <1>17 DEF AdminInv

(* What the hooks of the dashboard make of a message, each in its turn.        *)
LEMMA AdminHook ==
  ASSUME NEW s \in Tab, NEW m \in Ev, s.page = "admin"
  PROVE  LET r == AdminHears(s, m)
         IN  /\ r \in Tab /\ r.up = s.up
             /\ r.page # "admin" => ~r.isAdmin
             /\ r.page = "admin" => r.catalog = s.catalog
             /\ r.isAdmin => (s.isAdmin \/ m.type \in Entry) /\ r.sessions = s.sessions
             /\ r.revealed.phone \in {0, s.revealed.phone}
             /\ m.type \notin Entry \cup Quiet => r = s
<1> DEFINE r == AdminHears(s, m)
<1>1. CASE m.type = "CLUB_SESSION_RESTORED"
  <2>1. r = [s EXCEPT !.isAdmin = TRUE]
    BY <1>1 DEF AdminHears
  <2>. QED BY <1>1, <2>1 DEF Tab, Entry
<1>2. CASE m.type = "CLUB_ADMIN_VERIFIED" /\ s.verifying
  <2>1. r = [s EXCEPT !.verifying = FALSE, !.isAdmin = TRUE, !.token = TRUE]
    BY <1>2 DEF AdminHears
  <2> HIDE DEF r
  <2>2. /\ r \in Tab /\ r.up = s.up /\ r.page = s.page /\ r.catalog = s.catalog
        /\ r.sessions = s.sessions /\ r.revealed = s.revealed
    BY ONLY <2>1, s \in Tab DEF Tab
  <2>. QED BY <1>2, <2>2 DEF Entry, r
<1>3. CASE m.type = "ERROR"
  <2>1. r = [s EXCEPT !.verifying = FALSE, !.resetting = FALSE]
    BY <1>3 DEF AdminHears
  <2>. QED BY <1>3, <2>1 DEF Tab, Quiet
<1>4. CASE m.type = "CLUB_SETUP_RESET" /\ s.resetting
  <2>1. r = Mounted(s, "setup")
    BY <1>4 DEF AdminHears
  <2>2. /\ Mounted(s, "setup") \in Tab /\ Mounted(s, "setup").up = s.up /\ Mounted(s, "setup").page = "setup"
        /\ ~Mounted(s, "setup").isAdmin /\ Mounted(s, "setup").revealed.phone = 0
    BY MountedType
  <2>. QED BY <1>4, <2>1, <2>2 DEF Quiet
<1>5. CASE /\ m.type \notin {"CLUB_SESSION_RESTORED", "ERROR"}
           /\ ~(m.type = "CLUB_ADMIN_VERIFIED" /\ s.verifying)
           /\ ~(m.type = "CLUB_SETUP_RESET" /\ s.resetting)
  <2>1. r = s
    BY <1>5 DEF AdminHears
  <2>. QED BY <2>1
<1>. QED BY <1>1, <1>2, <1>3, <1>4, <1>5

(* useClubSessionHistory.                                                     *)
LEMMA HistoryHook ==
  ASSUME NEW s \in Tab, NEW m \in Ev
  PROVE  LET r == HistoryHears(s, m)
         IN  /\ r \in Tab /\ r.up = s.up /\ r.page = s.page /\ r.isAdmin = s.isAdmin /\ r.catalog = s.catalog
             /\ r.sessions = IF m.type = "CLUB_SESSION_HISTORY" THEN m.sessions ELSE s.sessions
             /\ r.revealed.phone \in {s.revealed.phone, m.phone}
<1> DEFINE r == HistoryHears(s, m)
<1>1. CASE m.type = "CLUB_SESSION_HISTORY"
  <2>1. r = [s EXCEPT !.sessions = m.sessions]
    BY <1>1 DEF HistoryHears
  <2>. QED BY <1>1, <2>1 DEF Tab, Ev
<1>2. CASE m.type = "CLUB_REVEAL_PHONE_RESULT" /\ s.wanted # 0
  <2> DEFINE v == IF m.ok THEN [session |-> s.wanted, phone |-> m.phone] ELSE s.revealed
  <2>1. r = [s EXCEPT !.wanted = 0, !.revealed = v]
    BY <1>2 DEF HistoryHears, Tab
  <2>2. v \in [session: Nat, phone: Nat] /\ v.phone \in {s.revealed.phone, m.phone}
    BY DEF Tab, Ev
  <2> HIDE DEF v
  <2> DEFINE a == [s EXCEPT !.wanted = 0]
             b == [a EXCEPT !.revealed = v]
  <2>3. a \in Tab /\ Alike(a, s)
    BY DEF Alike, Tab
  <2> HIDE DEF a
  <2>4. /\ b \in Tab /\ b.up = s.up /\ b.page = s.page /\ b.isAdmin = s.isAdmin /\ b.catalog = s.catalog
        /\ b.sessions = s.sessions /\ b.revealed = v
    BY <2>2, <2>3 DEF Alike, Tab
  <2>5. r = b
    BY <2>1 DEF a
  <2> HIDE DEF b
  <2>. QED BY <1>2, <2>2, <2>4, <2>5
<1>3. CASE /\ m.type # "CLUB_SESSION_HISTORY"
           /\ ~(m.type = "CLUB_REVEAL_PHONE_RESULT" /\ s.wanted # 0)
  <2>1. r = s
    BY <1>3 DEF HistoryHears
  <2>. QED BY <1>3, <2>1
<1>. QED BY <1>1, <1>2, <1>3

(* useCourtInventory.                                                         *)
LEMMA InventoryHook ==
  ASSUME NEW s \in Tab, NEW m \in Ev
  PROVE  LET r == InventoryHears(s, m)
         IN  /\ r \in Tab /\ r.up = s.up /\ r.page = s.page /\ r.isAdmin = s.isAdmin /\ r.sessions = s.sessions
             /\ r.catalog = IF m.type = "INVENTORY_UPDATED" THEN m.catalog ELSE s.catalog
             /\ r.revealed = s.revealed
<1> DEFINE r == InventoryHears(s, m)
<1>1. CASE m.type = "INVENTORY_UPDATED"
  <2>1. r = [s EXCEPT !.catalog = m.catalog, !.loading = FALSE]
    BY <1>1 DEF InventoryHears
  <2>. QED BY <1>1, <2>1 DEF Tab, Ev
<1>2. CASE m.type \in {"CLUB_KIOSK_DATA", "ERROR"}
  <2>1. r = [s EXCEPT !.loading = FALSE]
    BY <1>2 DEF InventoryHears
  <2>. QED BY <1>2, <2>1 DEF Tab
<1>3. CASE m.type \notin {"INVENTORY_UPDATED", "CLUB_KIOSK_DATA", "ERROR"}
  <2>1. r = s
    BY <1>3 DEF InventoryHears
  <2>. QED BY <1>3, <2>1
<1>. QED BY <1>1, <1>2, <1>3

(* What the page of a tab makes of a message.                                 *)
Heard(s, m) ==
  CASE s.page = "admin" -> HeardOnAdmin(s, m)
    [] s.page = "setup" -> HeardOnSetup(s, m)
    [] OTHER -> s

(* All hooks of a page together.                                              *)
LEMMA HeardLemma ==
  ASSUME NEW s \in Tab, NEW m \in Ev, s.isAdmin => s.page = "admin"
  PROVE  LET r == Heard(s, m)
         IN  /\ r \in Tab /\ r.up = s.up /\ (r.isAdmin => r.page = "admin")
             /\ r.page = "admin" =>
                  /\ s.page = "admin"
                  /\ r.catalog = IF m.type = "INVENTORY_UPDATED" THEN m.catalog ELSE s.catalog
             /\ r.isAdmin =>
                  /\ s.isAdmin \/ m.type \in Entry
                  /\ r.sessions = IF m.type = "CLUB_SESSION_HISTORY" THEN m.sessions ELSE s.sessions
             /\ r.revealed.phone \in {0, s.revealed.phone, m.phone}
<1> DEFINE r == Heard(s, m)
<1>1. CASE s.page = "admin"
  <2> DEFINE a == AdminHears(s, m)
             b == HistoryHears(a, m)
             c == InventoryHears(b, m)
  <2>1. r = c
    BY <1>1 DEF Heard, HeardOnAdmin
  <2>2. /\ a \in Tab /\ a.up = s.up /\ (a.page # "admin" => ~a.isAdmin)
        /\ (a.page = "admin" => a.catalog = s.catalog)
        /\ (a.isAdmin => (s.isAdmin \/ m.type \in Entry) /\ a.sessions = s.sessions)
        /\ a.revealed.phone \in {0, s.revealed.phone}
    BY <1>1, AdminHook
  <2> HIDE DEF a
  <2>3. /\ b \in Tab /\ b.up = a.up /\ b.page = a.page /\ b.isAdmin = a.isAdmin /\ b.catalog = a.catalog
        /\ b.sessions = IF m.type = "CLUB_SESSION_HISTORY" THEN m.sessions ELSE a.sessions
        /\ b.revealed.phone \in {a.revealed.phone, m.phone}
    BY <2>2, HistoryHook
  <2> HIDE DEF b
  <2>4. /\ c \in Tab /\ c.up = b.up /\ c.page = b.page /\ c.isAdmin = b.isAdmin /\ c.sessions = b.sessions
        /\ c.catalog = IF m.type = "INVENTORY_UPDATED" THEN m.catalog ELSE b.catalog
        /\ c.revealed = b.revealed
    BY <2>3, InventoryHook
  <2> HIDE DEF c
  <2>. QED BY <1>1, <2>1, <2>2, <2>3, <2>4
<1>2. CASE s.page = "setup"
  <2> DEFINE shown == [s EXCEPT !.loading = FALSE]
  <2>1. r = s \/ r = shown
    BY <1>2 DEF Heard, HeardOnSetup
  <2>2. /\ shown \in Tab /\ shown.up = s.up /\ shown.page = s.page
        /\ shown.isAdmin = s.isAdmin /\ shown.revealed = s.revealed
    BY ONLY s \in Tab DEF Tab
  <2> HIDE DEF r, shown
  <2>3. r \in Tab /\ r.up = s.up /\ r.page = s.page /\ r.isAdmin = s.isAdmin /\ r.revealed = s.revealed
    BY ONLY <2>1, <2>2, s \in Tab
  <2>. QED BY <1>2, <2>3 DEF r
<1>3. CASE s.page \notin {"admin", "setup"}
  <2>1. r = s
    BY <1>3 DEF Heard
  <2>. QED BY <1>3, <2>1
<1>. QED BY <1>1, <1>2, <1>3

(* A message is heard: what was last on its way is now what is shown.         *)
LEMMA ReceiveInv ==
  ASSUME AdminInv, NEW t \in Tabs, Receive(t)
  PROVE  AdminInv'
<1>1. AdminTypeOK /\ Queued /\ UpIsLive /\ Entitled /\ DashboardNeedsRole /\ HistoryFollows
      /\ CatalogInOrder /\ RecordsInOrder /\ RevealsAreLogged
  BY DEF AdminInv
<1> DEFINE q == toTab[t]
           m == Head(q)
           s == tab[t]
           r == Heard(s, m)
<1>2. /\ q # <<>> /\ toTab' = [toTab EXCEPT ![t] = Tail(q)]
      /\ tab' = [tab EXCEPT ![t] = r] /\ UNCHANGED <<hub, toHub>>
  BY <1>1 DEF Receive, Heard, AdminTypeOK
<1>3. q \in Seq(Ev) /\ s \in Tab /\ m \in Ev /\ Tail(q) \in Seq(Ev)
  BY <1>1, <1>2, Taken DEF Queued, AdminTypeOK
<1>4. UNCHANGED <<config, inventory, runtime, busy, history, audit, failed, role, pending, drawn, toHub>>
  BY <1>2 DEF hub
<1>5. /\ r \in Tab /\ r.up = s.up /\ (r.isAdmin => r.page = "admin")
      /\ r.page = "admin" =>
           s.page = "admin" /\ r.catalog = IF m.type = "INVENTORY_UPDATED" THEN m.catalog ELSE s.catalog
      /\ r.isAdmin =>
           /\ s.isAdmin \/ m.type \in Entry
           /\ r.sessions = IF m.type = "CLUB_SESSION_HISTORY" THEN m.sessions ELSE s.sessions
      /\ r.revealed.phone \in {0, s.revealed.phone, m.phone}
  BY <1>1, <1>3, HeardLemma DEF DashboardNeedsRole
<1> HIDE DEF r
<1>6. /\ tab'[t] = r /\ (\A u \in Tabs \ {t} : tab'[u] = tab[u]) /\ tab' \in [Tabs -> Tab]
      /\ toTab'[t] = Tail(q) /\ (\A u \in Tabs \ {t} : toTab'[u] = toTab[u]) /\ toTab' \in [Tabs -> Seq(Ev)]
  BY <1>1, <1>2, <1>3, <1>5 DEF AdminTypeOK, Queued
<1>7. /\ m = q[1] /\ 1 \in DOMAIN q
      /\ \A i \in DOMAIN Tail(q) : i + 1 \in DOMAIN q /\ Tail(q)[i] = q[i + 1]
  BY <1>2, <1>3, Taken
<1>8. /\ \A type : None(q, type) <=> m.type # type /\ None(Tail(q), type)
      /\ Followed(Tail(q)) /\ (m.type \in Entry => ~None(Tail(q), "CLUB_SESSION_HISTORY"))
      /\ \A now : CatalogAt(q, now) =>
           /\ CatalogAt(Tail(q), now)
           /\ m.type = "INVENTORY_UPDATED" /\ None(Tail(q), "INVENTORY_UPDATED") => m.catalog = now
      /\ \A now : RecordsAt(q, now) =>
           /\ RecordsAt(Tail(q), now)
           /\ m.type = "CLUB_SESSION_HISTORY" /\ None(Tail(q), "CLUB_SESSION_HISTORY") => m.sessions = now
  BY <1>1, <1>2, <1>3, TakenParts DEF HistoryFollows
<1> HIDE DEF m, q
<1>9. s = tab[t] /\ q = toTab[t]
  BY DEF q
<1> HIDE DEF s
<1>10. AdminTypeOK'
  <2>1. role' \subseteq {u \in Tabs : tab'[u].up} /\ pending' \subseteq role'
    BY <1>1, <1>4, <1>5, <1>6, <1>9 DEF AdminTypeOK
  <2>. QED BY <1>1, <1>4, <1>6, <2>1 DEF AdminTypeOK
<1>11. Queued'
  BY <1>1, <1>4, <1>6 DEF Queued
<1>12. UpIsLive'
  BY <1>1, <1>2, <1>4, <1>5, <1>6, <1>9 DEF UpIsLive
<1>13. Entitled'
  BY <1>1, <1>4, <1>6, <1>7, <1>9 DEF Entitled
<1>14. HistoryFollows'
  BY <1>1, <1>6, <1>8 DEF HistoryFollows
<1>15. DashboardNeedsRole'
  <2>1. r.isAdmin => t \in role
    BY <1>1, <1>5, <1>7, <1>9 DEF DashboardNeedsRole, Entitled
  <2>. QED BY <1>1, <1>4, <1>5, <1>6, <2>1 DEF DashboardNeedsRole
<1>16. CatalogInOrder'
  <2>1. CatalogAt(Tail(q), inventory) /\ (r.up /\ r.page = "admin" /\ None(toHub[t], "GET")
          /\ None(Tail(q), "INVENTORY_UPDATED") => r.catalog = inventory)
    BY <1>1, <1>5, <1>8, <1>9 DEF CatalogInOrder
  <2>. QED BY <1>1, <1>4, <1>6, <2>1 DEF CatalogInOrder
<1>17. RecordsInOrder'
  <2>1. ASSUME "history" \notin failed
        PROVE  /\ RecordsAt(Tail(q), history)
               /\ r.isAdmin /\ None(Tail(q), "CLUB_SESSION_HISTORY") => r.sessions = history
    BY <1>1, <1>5, <1>8, <1>9, <2>1 DEF RecordsInOrder
  <2>. QED BY <1>1, <1>4, <1>6, <2>1 DEF RecordsInOrder
<1>18. RevealsAreLogged'
  <2>1. SUFFICES ASSUME "audit" \notin failed', NEW u \in Tabs, NEW p \in PhonesAt(u)' \ {0}
                 PROVE  [tab |-> u, record |-> p] \in audit'
    BY DEF RevealsAreLogged
  <2>2. p \in PhonesAt(u)
    <3>1. CASE u = t
      <4>1. p = r.revealed.phone \/ \E i \in DOMAIN Tail(q) : p = Tail(q)[i].phone
        BY <1>6, <2>1, <3>1 DEF PhonesAt
      <4>2. p = s.revealed.phone \/ \E i \in DOMAIN q : p = q[i].phone
        BY <1>5, <1>7, <2>1, <4>1
      <4>. QED BY <1>9, <3>1, <4>2 DEF PhonesAt
    <3>2. CASE u # t
      BY <1>6, <2>1, <3>2 DEF PhonesAt
    <3>. QED BY <3>1, <3>2
  <2>. QED BY <1>1, <1>4, <2>1, <2>2 DEF RevealsAreLogged
<1>. QED BY <1>10, <1>11, <1>12, <1>13, <1>14, <1>15, <1>16, <1>17, <1>18 DEF AdminInv

(* The invariant holds initially.                                             *)
LEMMA AdminInitInv == AdminInit => AdminInv
<1> SUFFICES ASSUME AdminInit PROVE AdminInv
  OBVIOUS
<1>1. <<>> \in Seq(CourtRecord) /\ <<>> \in Seq(Record) /\ <<>> \in Seq(Req) /\ <<>> \in Seq(Ev)
  OBVIOUS
<1>2. inventory \in Seq(CourtRecord) /\ history \in Seq(Record)
  <2>1. FirstCourt \in CourtRecord /\ [id |-> 1, key |-> 1] \in Record
    BY DEF FirstCourt, CourtRecord, Record
  <2>. QED BY <2>1 DEF AdminInit
<1> DEFINE blank == [page |-> "admin", up |-> TRUE, token |-> FALSE, shake |-> FALSE, isAdmin |-> FALSE,
                     verifying |-> FALSE, resetting |-> FALSE, loading |-> FALSE, asking |-> FALSE,
                     wanted |-> 0, revealed |-> NoReveal, catalog |-> <<>>, sessions |-> <<>>]
<1>3. blank \in Tab /\ blank.up
  <2>1. NoReveal \in [session: Nat, phone: Nat]
    BY DEF NoReveal
  <2>. QED BY <1>1, <2>1 DEF Tab
<1>4. Fresh \in Tab /\ Fresh.up /\ Fresh.page = "admin" /\ ~Fresh.isAdmin /\ Fresh.revealed.phone = 0
  <2>1. Fresh = Mounted(blank, "admin")
    BY DEF Fresh
  <2> HIDE DEF blank
  <2>. QED BY <1>3, <2>1, MountedType
<1> DEFINE known == [Fresh EXCEPT !.token = TRUE, !.shake = TRUE, !.isAdmin = TRUE,
                                  !.catalog = inventory, !.sessions = history]
           unknown == [Fresh EXCEPT !.catalog = inventory]
<1>5. /\ known \in Tab /\ known.up /\ known.page = "admin" /\ known.catalog = inventory
      /\ known.sessions = history /\ known.revealed.phone = 0
  BY <1>2, <1>4 DEF Tab
<1>6. /\ unknown \in Tab /\ unknown.up /\ unknown.page = "admin" /\ unknown.catalog = inventory
      /\ ~unknown.isAdmin /\ unknown.revealed.phone = 0
  BY <1>2, <1>4 DEF Tab
<1>7. \A t \in Tabs : tab[t] = IF t \in role THEN known ELSE unknown
  BY DEF AdminInit
<1>8. /\ \A t \in Tabs : tab[t] \in Tab /\ tab[t].up /\ tab[t].catalog = inventory /\ tab[t].revealed.phone = 0
      /\ \A t \in Tabs : tab[t].isAdmin => t \in role /\ tab[t].page = "admin" /\ tab[t].sessions = history
      /\ \A t \in Tabs : toHub[t] = <<>> /\ toTab[t] = <<>>
  <2>1. \A t \in Tabs : toHub[t] = <<>> /\ toTab[t] = <<>>
    BY DEF AdminInit
  <2> HIDE DEF known, unknown
  <2>. QED BY <1>5, <1>6, <1>7, <2>1
<1>9. AdminTypeOK
  <2>1. tab \in [Tabs -> Tab]
    <3>1. tab = [t \in Tabs |-> tab[t]]
      BY Zenon DEF AdminInit
    <3>. QED BY <1>8, <3>1
  <2>2. runtime \in [CourtIds -> {"none", "open", "finished"}]
    BY DEF AdminInit
  <2>3. config \in Nat /\ busy = {} /\ audit = {} /\ failed = {} /\ pending = {} /\ role \subseteq Tabs
    BY DEF AdminInit
  <2>. QED BY <1>2, <1>8, <2>1, <2>2, <2>3 DEF AdminTypeOK
<1>10. Queued
  <2>1. drawn \in [court: Nat, record: Nat, key: Nat]
    BY DEF AdminInit
  <2>. QED BY <1>1, <2>1 DEF AdminInit, Queued
<1>11. UpIsLive /\ Entitled /\ DashboardNeedsRole /\ HistoryFollows
  BY <1>8, EmptyQueue DEF UpIsLive, Entitled, DashboardNeedsRole, HistoryFollows
<1>12. CatalogInOrder /\ RecordsInOrder
  BY <1>8, EmptyQueue DEF CatalogInOrder, RecordsInOrder
<1>13. RevealsAreLogged
  BY <1>8 DEF RevealsAreLogged, PhonesAt
<1>. QED BY <1>9, <1>10, <1>11, <1>12, <1>13 DEF AdminInv

(* Every step keeps it.                                                       *)
LEMMA AdminStep == AdminInv /\ [AdminNext]_adminVars => AdminInv'
<1> SUFFICES ASSUME AdminInv, [AdminNext]_adminVars PROVE AdminInv'
  OBVIOUS
<1>1. CASE UNCHANGED adminVars
  BY <1>1 DEF adminVars, hub, AdminInv, AdminTypeOK, Queued, UpIsLive, Entitled, DashboardNeedsRole,
              HistoryFollows, CatalogInOrder, RecordsInOrder, RevealsAreLogged, PhonesAt
<1>2. ASSUME NEW c \in CourtIds, PlayerJoins(c) PROVE AdminInv'
  BY <1>2, PlayerJoinsInv
<1>3. ASSUME NEW s \in busy, PlayerEnds(s) PROVE AdminInv'
  BY <1>3, PlayerEndsInv
<1>4. ASSUME NEW t \in Tabs,
             \/ \E good \in BOOLEAN : TypePin(t, good)
             \/ AskReset(t) \/ SubmitSetup(t) \/ AskClear(t) \/ ConfirmClear(t) \/ AskingEnds(t)
             \/ \E id \in 1 .. MaxRecords : RevealPhone(t, id)
             \/ AddCourt(t) \/ Timeout(t)
      PROVE  AdminInv'
  BY <1>4, PageInv
<1>5. ASSUME NEW t \in Tabs, NEW row \in Shown(t), Buttons(t, row) PROVE AdminInv'
  BY <1>5, ButtonsInv
<1>6. ASSUME NEW t \in Tabs, ClosePhone(t) PROVE AdminInv'
  BY <1>6, ClosePhoneInv
<1>7. ASSUME NEW t \in Tabs, Leave(t) \/ Open(t) \/ PageLoads(t) PROVE AdminInv'
  BY <1>7, PagesComeAndGo
<1>8. ASSUME NEW t \in Tabs, Drop(t) \/ Reload(t) PROVE AdminInv'
  BY <1>8, DropReloadInv
<1>9. ASSUME NEW t \in Tabs, Connect(t) PROVE AdminInv'
  BY <1>9, ConnectInv
<1>10. ASSUME NEW t \in Tabs, PendingExpires(t) PROVE AdminInv'
  BY <1>10, PendingExpiresInv
<1>11. ASSUME NEW t \in Tabs, Serve(t) PROVE AdminInv'
  BY <1>11, ServeInv
<1>12. ASSUME NEW t \in Tabs, Receive(t) PROVE AdminInv'
  BY <1>12, ReceiveInv
<1>. QED BY <1>1, <1>2, <1>3, <1>4, <1>5, <1>6, <1>7, <1>8, <1>9, <1>10, <1>11, <1>12 DEF AdminNext

(* Every reachable state satisfies AdminInv.                                  *)
THEOREM AdminInvariance == AdminSpec => []AdminInv
  BY AdminInitInv, AdminStep, PTL DEF AdminSpec

(* Hub and tabs hold what the types say.                                      *)
THEOREM AdminTypeCorrect == AdminSpec => []AdminTypeOK
<1>1. AdminInv => AdminTypeOK
  BY DEF AdminInv
<1>. QED BY <1>1, AdminInvariance, PTL

(* DashboardIsCurrent: an administrator's page that waits for nothing shows   *)
(* the courts and the records there are, and the dashboard is there with the  *)
(* role only.                                                                 *)
THEOREM DashboardCorrect == AdminSpec => []DashboardIsCurrent
<1>1. AdminInv => DashboardIsCurrent
  <2> SUFFICES ASSUME AdminInv, NEW t \in Tabs
               PROVE  /\ Settled(t) => tab[t].catalog = inventory
                      /\ Settled(t) /\ tab[t].isAdmin /\ "history" \notin failed => tab[t].sessions = history
                      /\ tab[t].isAdmin => t \in role
    BY DEF DashboardIsCurrent
  <2>1. DashboardNeedsRole /\ CatalogInOrder /\ RecordsInOrder
    BY DEF AdminInv
  <2>2. Settled(t) => \A type : None(toHub[t], type) /\ None(toTab[t], type)
    BY EmptyQueue DEF Settled
  <2>. QED BY <2>1, <2>2 DEF Settled, DashboardNeedsRole, CatalogInOrder, RecordsInOrder
<1>. QED BY <1>1, AdminInvariance, PTL

(* RevealsAreLogged: no phone is shown, or on its way, that was not put on    *)
(* record first, for as long as no write of the record has failed.            *)
THEOREM RevealsCorrect == AdminSpec => []RevealsAreLogged
<1>1. AdminInv => RevealsAreLogged
  BY DEF AdminInv
<1>. QED BY <1>1, AdminInvariance, PTL
==============================================================================

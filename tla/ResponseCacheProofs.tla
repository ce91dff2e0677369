------------------------ MODULE ResponseCacheProofs ------------------------
(***************************************************************************)
(* Proofs about the response cache, for any number of callers, resources,  *)
(* scopes, classes and concurrent handlers, and any bounds.                *)
(*                                                                         *)
(* After the types and the table of fills comes CacheInv, the inductive    *)
(* invariant from which a hit never shows less than the clients of its     *)
(* scope and class had been told when the lookup began.  That part states  *)
(* first what any step may do to the cache, the leases, the running fills  *)
(* and the counters, derives that Fresh(k, n) is stable and that a bump    *)
(* moves to keys nobody has used, and then goes through the conjuncts of   *)
(* CacheInv.                                                               *)
(***************************************************************************)
EXTENDS ResponseCacheInv, GenerationsProofs

-----------------------------------------------------------------------------
(* Types.                                                                   *)

\* The key of this moment is a key.
LEMMA KeyNowTyped ==
    ASSUME GenTypeOK, NEW s \in Scope, NEW res \in Resource
    PROVE  KeyNow(res, s) \in Key /\ KeyNow(res, s).scope = s
<1>1. ClassOf[res] \in Class
  BY ResourceAssumption
<1>2. Effective(s, ClassOf[res]) \in Nat /\ Global \in Nat
  BY <1>1, NamespaceTyped
<1> QED
  BY <1>2 DEF KeyNow, Key

\* None is no key, caller or scope.
LEMMA NoneIsNoKey == None \notin Key /\ None \notin Caller /\ None \notin Scope
BY NoneAssumption DEF Key

LEMMA IdleRecords ==
    ReaderOK(IdleReader) /\ WriterOK(IdleWriter) /\ WarmerOK(IdleWarmer)
BY NoneIsNoKey DEF ReaderOK, IdleReader, ReaderPC, KeyedPC, FillPC, WriterOK, IdleWriter,
   WriterPC, WarmerOK, IdleWarmer, WarmerPC

LEMMA TypeInit == Init => TypeOK
<1> SUFFICES ASSUME Init PROVE TypeOK
  OBVIOUS
<1>1. GenTypeOK
  BY WidthAssumption DEF Init, GenInit, GenTypeOK
<1>2. IdleInvalidator \in [pc : InvalidatorPC, rs : Scope \cup {Blank},
                          rc : Class \cup {Blank}, at : Nat]
  BY DEF IdleInvalidator, InvalidatorPC
<1>3. /\ DOMAIN rd = Reader /\ \A r \in Reader : ReaderOK(rd[r])
      /\ DOMAIN wr = Writer /\ \A w \in Writer : WriterOK(wr[w])
      /\ DOMAIN wm = Warmer /\ \A x \in Warmer : WarmerOK(wm[x])
  BY IdleRecords DEF Init
<1>4. iv \in [Invalidator -> [pc : InvalidatorPC, rs : Scope \cup {Blank},
                             rc : Class \cup {Blank}, at : Nat]]
  BY <1>2 DEF Init
<1>5. /\ clock \in 0..MaxClock
      /\ access \in [Caller -> BOOLEAN]
      /\ floor \in [Scope -> [Class -> Nat]]
      /\ rejectedAt \in [Caller -> Nat]
  BY ClockAssumption DEF Init
<1> QED
  BY <1>1, <1>3, <1>4, <1>5, Zenon DEF Init, TypeOK

\* A step of one browse request keeps the records of all requests typed.
LEMMA ReaderTyped ==
    ASSUME TypeOK, NEW r \in Reader, NEW rec, ReaderOK(rec), ToReader(r, rec)
    PROVE  DOMAIN rd' = Reader /\ \A q \in Reader : ReaderOK(rd'[q])
BY DEF TypeOK, ToReader

\* What a reader's own step may do to its record.
LEMMA ReaderLookupTyped ==
    ASSUME TypeOK, NEW r \in Reader,
           \/ Gate(r) \/ ServeCache(r) \/ CheckLease(r) \/ ReadCache(r)
           \/ ReloadBroken(r) \/ RecheckGeneration(r)
           \/ WaitForFlight(r) \/ PollFlight(r) \/ FlightTimeout(r)
           \/ Answer(r)
    PROVE  TypeOK'
<1>1. ReaderOK(rd[r])
  BY DEF TypeOK
<1>2. \A e \in cache : e.at \in Nat
  BY DEF TypeOK, Entry
<1>3. clock \in Nat
  BY ClockAssumption DEF TypeOK
<1>4. rd[r].pc \in KeyedPC =>
         floor[rd[r].scope][ClassOf[rd[r].key.res]] \in Nat
  <2> SUFFICES ASSUME rd[r].pc \in KeyedPC
               PROVE  floor[rd[r].scope][ClassOf[rd[r].key.res]] \in Nat
    OBVIOUS
  <2>1. rd[r].scope \in Scope /\ rd[r].key \in Key
    BY <1>1 DEF ReaderOK, KeyedPC, FillPC
  <2>2. ClassOf[rd[r].key.res] \in Class
    BY <2>1, ResourceAssumption DEF Key
  <2> QED
    BY <2>1, <2>2 DEF TypeOK
<1>5. \E rec : ReaderOK(rec) /\ ToReader(r, rec)
  <2>1. CASE Gate(r)
    BY <1>1, <2>1, NoneIsNoKey, Zenon DEF Gate, ReaderOK, ReaderPC, KeyedPC, FillPC
  <2>2. CASE ServeCache(r)
    BY <1>1, <1>4, <2>2, Zenon DEF ServeCache, Miss, ReaderOK, ReaderPC, KeyedPC, FillPC
  <2>3. CASE CheckLease(r)
    BY <1>1, <2>3, Zenon DEF CheckLease, Miss, ReaderOK, ReaderPC, KeyedPC, FillPC
  <2>4. CASE ReadCache(r)
    BY <1>1, <1>2, <2>4, Zenon DEF ReadCache, Miss, ReaderOK, ReaderPC, KeyedPC, FillPC
  <2>5. CASE ReloadBroken(r)
    BY <1>1, <2>5, Zenon DEF ReloadBroken, Miss, ReaderOK, ReaderPC, KeyedPC, FillPC
  <2>6. CASE RecheckGeneration(r)
    BY <1>1, <2>6, Zenon DEF RecheckGeneration, Miss, ReaderOK, ReaderPC, KeyedPC, FillPC
  <2>7. CASE WaitForFlight(r)
    BY <1>1, <2>7 DEF WaitForFlight, ReaderOK, ReaderPC, KeyedPC, FillPC
  <2>8. CASE PollFlight(r)
    BY <1>1, <2>8, Zenon DEF PollFlight, ReaderOK, ReaderPC, KeyedPC, FillPC
  <2>9. CASE FlightTimeout(r)
    BY <1>1, <2>9 DEF FlightTimeout, ReaderOK, ReaderPC, KeyedPC, FillPC
  <2>10. CASE Answer(r)
    BY <1>1, <1>3, <2>10, Zenon DEF Answer, ReaderOK, ReaderPC, KeyedPC, FillPC
  <2> QED
    BY <2>1, <2>2, <2>3, <2>4, <2>5, <2>6, <2>7, <2>8, <2>9, <2>10
<1>6. DOMAIN rd' = Reader /\ \A q \in Reader : ReaderOK(rd'[q])
  BY <1>5, ReaderTyped
<1>7. UNCHANGED <<gen, cache, wr, iv, wm, procVars, pmsVars, histVars>>
  BY Zenon DEF Gate, ServeCache, CheckLease, ReadCache, ReloadBroken,
     RecheckGeneration, WaitForFlight, PollFlight, FlightTimeout, Answer
<1> QED
  BY <1>6, <1>7 DEF TypeOK, GenTypeOK, procVars, pmsVars, histVars

\* The end of a request.
LEMMA FinishTyped ==
    ASSUME TypeOK, NEW r \in Reader, Finish(r)
    PROVE  /\ DOMAIN rd' = Reader /\ \A q \in Reader : ReaderOK(rd'[q])
           /\ flight' \subseteq Key
BY IdleRecords, ReaderTyped DEF Finish, TypeOK

LEMMA PutTyped ==
    ASSUME TypeOK, NEW k \in Key, NEW at \in Nat
    PROVE  Put(cache, k, at) \subseteq Entry
BY DEF TypeOK, Put, Entry

LEMMA ReaderFillTyped ==
    ASSUME TypeOK, NEW r \in Reader,
           \/ WriteHit(r) \/ TryBeginFlight(r) \/ AnswerNotStored(r)
           \/ RevokeRejected(r) \/ CopyBody(r) \/ RecheckBeforeSet(r)
           \/ SetEntry(r) \/ SetEntryFails(r) \/ Grant(r) \/ Track(r)
    PROVE  TypeOK'
<1>1. ReaderOK(rd[r])
  BY DEF TypeOK
<1>2. /\ rd[r].at \in Nat
      /\ rd[r].pc # "idle" => rd[r].caller \in Caller /\ rd[r].scope \in Scope
      /\ rd[r].pc \in KeyedPC => rd[r].key \in Key
  BY <1>1 DEF ReaderOK
<1>3. CASE WriteHit(r) \/ AnswerNotStored(r)
  <2>1. Finish(r) /\ UNCHANGED <<gen, cache, grants, broken, tracked, wr, iv, wm,
                                 pmsVars, histVars>>
    BY <1>3 DEF WriteHit, AnswerNotStored
  <2> QED
    BY <2>1, FinishTyped DEF TypeOK, GenTypeOK, pmsVars, histVars
<1>4. CASE TryBeginFlight(r)
  <2>1. rd[r].key \in Key
    BY <1>2, <1>4 DEF TryBeginFlight, KeyedPC, ReaderPC
  <2>2. \E rec : ReaderOK(rec) /\ ToReader(r, rec)
    BY <1>1, <1>4, Zenon DEF TryBeginFlight, ReaderOK, ReaderPC, KeyedPC, FillPC
  <2>3. DOMAIN rd' = Reader /\ \A q \in Reader : ReaderOK(rd'[q])
    BY <2>2, ReaderTyped
  <2>4. flight' \subseteq Key
    BY <1>4, <2>1 DEF TryBeginFlight, TypeOK
  <2> QED
    BY <1>4, <2>3, <2>4 DEF TryBeginFlight, TypeOK, GenTypeOK, pmsVars, histVars
<1>5. CASE RevokeRejected(r)
  <2>1. rd[r].caller \in Caller
    BY <1>2, <1>5 DEF RevokeRejected
  <2>2. /\ grants' \subseteq Lease /\ tracked' \subseteq Key
        /\ rejectedAt' \in [Caller -> Nat]
    BY <1>2, <1>5, <2>1 DEF RevokeRejected, Revoke, WithoutCaller, WithoutScope, TypeOK
  <2> QED
    BY <1>5, <2>2, FinishTyped DEF RevokeRejected, TypeOK, GenTypeOK, pmsVars
<1>6. CASE CopyBody(r) \/ RecheckBeforeSet(r)
  <2>1. UNCHANGED <<gen, cache, grants, broken, tracked, wr, iv, wm, pmsVars, histVars>>
    BY <1>6 DEF CopyBody, RecheckBeforeSet
  <2>2. \/ Finish(r)
        \/ (\E rec : ReaderOK(rec) /\ ToReader(r, rec)) /\ UNCHANGED flight
    <3>1. CASE CopyBody(r)
      BY <1>1, <3>1 DEF CopyBody, ReaderOK, ReaderPC, KeyedPC, FillPC
    <3>2. CASE RecheckBeforeSet(r)
      BY <1>1, <3>2 DEF RecheckBeforeSet, ReaderOK, ReaderPC, KeyedPC, FillPC
    <3> QED
      BY <1>6, <3>1, <3>2
  <2>3. /\ DOMAIN rd' = Reader /\ \A q \in Reader : ReaderOK(rd'[q])
        /\ flight' \subseteq Key
    BY <2>2, FinishTyped, ReaderTyped DEF TypeOK
  <2> QED
    BY <2>1, <2>3 DEF TypeOK, GenTypeOK, pmsVars, histVars
<1>7. CASE SetEntry(r)
  <2>1. rd[r].key \in Key
    BY <1>2, <1>7 DEF SetEntry, KeyedPC, ReaderPC
  <2>2. cache' \subseteq Entry
    BY <1>2, <1>7, <2>1, PutTyped DEF SetEntry
  <2>3. \E rec : ReaderOK(rec) /\ ToReader(r, rec)
    BY <1>1, <1>7 DEF SetEntry, ReaderOK, ReaderPC, KeyedPC, FillPC
  <2>4. DOMAIN rd' = Reader /\ \A q \in Reader : ReaderOK(rd'[q])
    BY <2>3, ReaderTyped
  <2> QED
    BY <1>7, <2>2, <2>4 DEF SetEntry, TypeOK, GenTypeOK, procVars, pmsVars, histVars
<1>8. CASE SetEntryFails(r)
  <2>1. rd[r].key \in Key
    BY <1>2, <1>8 DEF SetEntryFails, KeyedPC, ReaderPC
  <2>2. cache' \subseteq Entry
    <3>1. cache \subseteq Entry
      BY DEF TypeOK
    <3>2. Put(cache, rd[r].key, rd[r].at) \subseteq Entry
      BY <1>2, <2>1, PutTyped
    <3> QED
      BY <1>8, <3>1, <3>2 DEF SetEntryFails
  <2> QED
    BY <1>8, <2>2, FinishTyped DEF SetEntryFails, TypeOK, GenTypeOK, pmsVars, histVars
<1>9. CASE Grant(r)
  <2>1. rd[r].key \in Key /\ rd[r].caller \in Caller
    BY <1>2, <1>9 DEF Grant, KeyedPC, ReaderPC
  <2>2. grants' \subseteq Lease
    BY <1>2, <1>9, <2>1 DEF Grant, TypeOK, Lease
  <2>3. \E rec : ReaderOK(rec) /\ ToReader(r, rec)
    BY <1>1, <1>9, Zenon DEF Grant, ReaderOK, ReaderPC, KeyedPC, FillPC
  <2>4. DOMAIN rd' = Reader /\ \A q \in Reader : ReaderOK(rd'[q])
    BY <2>3, ReaderTyped
  <2> QED
    BY <1>9, <2>2, <2>4 DEF Grant, TypeOK, GenTypeOK, pmsVars, histVars
<1>10. CASE Track(r)
  <2>1. rd[r].key \in Key
    BY <1>2, <1>10 DEF Track, KeyedPC, ReaderPC
  <2>2. tracked' \subseteq Key
    BY <1>10, <2>1, Zenon DEF Track, TypeOK
  <2> QED
    BY <1>10, <2>2, FinishTyped DEF Track, TypeOK, GenTypeOK, pmsVars, histVars
<1> QED
  BY <1>3, <1>4, <1>5, <1>6, <1>7, <1>8, <1>9, <1>10

LEMMA ArrivalTyped == ASSUME TypeOK, Arrival PROVE TypeOK'
<1>1. ASSUME NEW r \in Reader, NEW c \in Caller, NEW s \in ScopesOf[c],
             NEW res \in Resource, Observe(r, c, s, res)
      PROVE  TypeOK'
  <2>1. s \in Scope
    BY ScopesAssumption
  <2>2. KeyNow(res, s) \in Key /\ KeyNow(res, s).scope = s
    BY <2>1, KeyNowTyped DEF TypeOK
  <2>3. \E rec : ReaderOK(rec) /\ ToReader(r, rec)
    BY <1>1, <2>1, <2>2, IdleRecords, Zenon
    DEF Observe, ReaderOK, IdleReader, ReaderPC, KeyedPC, FillPC
  <2>4. DOMAIN rd' = Reader /\ \A q \in Reader : ReaderOK(rd'[q])
    BY <2>3, ReaderTyped
  <2> QED
    BY <1>1, <2>4 DEF TypeOK, Observe, procVars, pmsVars, histVars, GenTypeOK
<1>2. ASSUME NEW r \in Reader, NEW c \in Caller, NEW s \in ScopesOf[c],
             ObserveBypass(r, c, s) \/ ObserveInvalid(r, c, s)
      PROVE  TypeOK'
  <2>1. s \in Scope
    BY ScopesAssumption
  <2>2. \E rec : ReaderOK(rec) /\ ToReader(r, rec)
    BY <1>2, <2>1, IdleRecords, NoneIsNoKey, Zenon
    DEF ObserveBypass, ObserveInvalid, ReaderOK, IdleReader, ReaderPC, KeyedPC, FillPC
  <2>3. DOMAIN rd' = Reader /\ \A q \in Reader : ReaderOK(rd'[q])
    BY <2>2, ReaderTyped
  <2>4. grants' \subseteq Lease /\ tracked' \subseteq Key
    BY <1>2 DEF ObserveBypass, ObserveInvalid, WithoutCaller, WithoutScope, TypeOK,
                procVars
  <2>5. UNCHANGED <<gen, cache, broken, flight, wr, iv, wm, pmsVars, histVars>>
    BY <1>2 DEF ObserveBypass, ObserveInvalid, procVars
  <2> QED
    BY <2>3, <2>4, <2>5 DEF TypeOK, pmsVars, histVars, GenTypeOK
<1>3. ASSUME NEW w \in Writer, NEW c \in Caller, NEW s \in ScopesOf[c],
             BeginWrite(w, c, s)
      PROVE  TypeOK'
  <2>1. s \in Scope
    BY ScopesAssumption
  <2>2. DOMAIN wr' = Writer /\ \A v \in Writer : WriterOK(wr'[v])
    BY <1>3, <2>1, IdleRecords, Zenon DEF BeginWrite, TypeOK, WriterOK, IdleWriter, WriterPC
  <2> QED
    BY <1>3, <2>2 DEF BeginWrite, TypeOK, procVars, pmsVars, histVars, GenTypeOK
<1>4. ASSUME NEW i \in Invalidator, NEW rs \in Scope \cup {Blank},
             NEW rc \in Class \cup {Blank}, BeginInvalidate(i, rs, rc)
      PROVE  TypeOK'
  <2>1. clock \in Nat
    BY ClockAssumption DEF TypeOK
  <2>2. iv' \in [Invalidator -> [pc : InvalidatorPC, rs : Scope \cup {Blank},
                                rc : Class \cup {Blank}, at : Nat]]
    BY <1>4, <2>1 DEF BeginInvalidate, TypeOK, InvalidatorPC
  <2> QED
    BY <1>4, <2>2 DEF BeginInvalidate, TypeOK, procVars, pmsVars, histVars, GenTypeOK
<1>5. ASSUME NEW x \in Warmer, NEW j \in tracked, PickJob(x, j)
      PROVE  TypeOK'
  <2>1. j \in Key
    BY DEF TypeOK
  <2>2. DOMAIN wm' = Warmer /\ \A y \in Warmer : WarmerOK(wm'[y])
    <3> DEFINE rec == [IdleWarmer EXCEPT !.pc = "key", !.job = j]
    <3>1. WarmerOK(rec)
      BY <2>1, NoneIsNoKey, Zenon DEF WarmerOK, IdleWarmer, WarmerPC
    <3>2. wm' = [wm EXCEPT ![x] = rec] \/ wm' = wm
      BY <1>5 DEF PickJob
    <3> HIDE DEF rec
    <3> QED
      BY <3>1, <3>2 DEF TypeOK
  <2>3. tracked' \subseteq Key
    BY <1>5 DEF PickJob, TypeOK
  <2> QED
    BY <1>5, <2>2, <2>3 DEF PickJob, TypeOK, pmsVars, histVars, GenTypeOK
<1> QED
  BY <1>1, <1>2, <1>3, <1>4, <1>5 DEF Arrival

LEMMA WriterTyped == ASSUME TypeOK, NEW w \in Writer, WriterStep(w) PROVE TypeOK'
<1>1. WriterOK(wr[w])
  BY DEF TypeOK
<1>2. clock \in Nat /\ MaxClock \in Nat
  BY ClockAssumption DEF TypeOK
<1>3. DOMAIN wr' = Writer /\ \A v \in Writer : WriterOK(wr'[v])
  <2>1. \E rec : WriterOK(rec) /\ wr' = [wr EXCEPT ![w] = rec]
    <3>1. CASE AnswerWrite(w)
      <4>0. wr[w].pc = "fetch"
        BY <3>1 DEF AnswerWrite
      <4>1. CASE access[wr[w].caller]
        <5> DEFINE rec == [wr[w] EXCEPT !.pc = "bump", !.at = clock + 1]
        <5>1. WriterOK(rec)
          <6>1. \A n \in Nat : WriterOK([wr[w] EXCEPT !.pc = "bump", !.at = n])
            BY <1>1, <4>0, Zenon DEF WriterOK, WriterPC
          <6>2. clock + 1 \in Nat
            BY <1>2
          <6> QED
            BY <6>1, <6>2, Zenon
        <5>2. wr' = [wr EXCEPT ![w] = rec]
          BY <3>1, <4>1, Zenon DEF AnswerWrite, TypeOK
        <5> QED
          BY <5>1, <5>2, Zenon
      <4>2. CASE ~access[wr[w].caller]
        <5> DEFINE rec == [wr[w] EXCEPT !.pc = "revoke", !.at = clock]
        <5>1. WriterOK(rec)
          BY <1>1, <1>2, <4>0, Zenon DEF WriterOK, WriterPC
        <5>2. wr' = [wr EXCEPT ![w] = rec]
          BY <3>1, <4>2, Zenon DEF AnswerWrite, TypeOK
        <5> QED
          BY <5>1, <5>2, Zenon
      <4> QED
        BY <4>1, <4>2
    <3>2. CASE WriteFails(w) \/ RevokeWriter(w) \/ AckWrite(w)
      BY <3>2, IdleRecords DEF WriteFails, RevokeWriter, AckWrite
    <3>3. CASE BumpStateGeneration(w) \/ BreakWriter(w)
      <4> DEFINE rec == [wr[w] EXCEPT !.pc = "ack"]
      <4>1. WriterOK(rec)
        BY <1>1, <3>3 DEF BumpStateGeneration, BreakWriter, WriterOK, WriterPC
      <4>2. wr' = [wr EXCEPT ![w] = rec]
        BY <3>3 DEF BumpStateGeneration, BreakWriter, TypeOK
      <4> QED
        BY <4>1, <4>2, Zenon
    <3>4. CASE BumpStateGenerationFails(w)
      <4> DEFINE rec == [wr[w] EXCEPT !.pc = "break"]
      <4>1. WriterOK(rec)
        BY <1>1, <3>4 DEF BumpStateGenerationFails, WriterOK, WriterPC
      <4>2. wr' = [wr EXCEPT ![w] = rec]
        BY <3>4 DEF BumpStateGenerationFails, TypeOK
      <4> QED
        BY <4>1, <4>2, Zenon
    <3> QED
      BY <3>1, <3>2, <3>3, <3>4 DEF WriterStep
  <2> QED
    BY <2>1 DEF TypeOK
<1>4. CASE AnswerWrite(w) \/ WriteFails(w)
  <2>1. clock' \in 0..MaxClock
    BY <1>2, <1>4 DEF AnswerWrite, WriteFails, TypeOK
  <2> QED
    BY <1>3, <1>4, <2>1 DEF AnswerWrite, WriteFails, TypeOK, GenTypeOK, procVars, histVars
<1>5. CASE RevokeWriter(w)
  <2>1. wr[w].caller \in Caller /\ wr[w].at \in Nat
    BY <1>1, <1>5 DEF RevokeWriter, WriterOK
  <2>2. /\ grants' \subseteq Lease /\ tracked' \subseteq Key
        /\ rejectedAt' \in [Caller -> Nat]
    BY <1>5, <2>1 DEF RevokeWriter, Revoke, WithoutCaller, WithoutScope, TypeOK
  <2> QED
    BY <1>3, <1>5, <2>2 DEF RevokeWriter, TypeOK, GenTypeOK, pmsVars
<1>6. CASE BumpStateGeneration(w) \/ BumpStateGenerationFails(w)
  <2>1. wr[w].scope \in Scope
    BY <1>1, <1>6 DEF BumpStateGeneration, BumpStateGenerationFails, WriterOK
  <2>2. BumpScope(wr[w].scope) \/ UNCHANGED gen
    BY <1>6 DEF BumpStateGeneration, BumpStateGenerationFails
  <2>3. GenTypeOK'
    BY <2>1, <2>2, BumpCounters DEF TypeOK, BumpScope, GenTypeOK
  <2>4. failing' \subseteq Writer \cup Invalidator
    BY <1>6 DEF BumpStateGeneration, BumpStateGenerationFails, TypeOK, histVars
  <2> QED
    BY <1>3, <1>6, <2>3, <2>4
    DEF BumpStateGeneration, BumpStateGenerationFails, TypeOK, procVars, pmsVars, histVars
<1>7. CASE BreakWriter(w)
  BY <1>3, <1>7 DEF BreakWriter, SetBroken, TypeOK, GenTypeOK, pmsVars
<1>8. CASE AckWrite(w)
  <2>1. floor' \in [Scope -> [Class -> Nat]]
    BY <1>1, <1>8 DEF AckWrite, Told, TypeOK, WriterOK
  <2> QED
    BY <1>3, <1>8, <2>1 DEF AckWrite, TypeOK, GenTypeOK, procVars, pmsVars
<1> QED
  BY <1>4, <1>5, <1>6, <1>7, <1>8 DEF WriterStep

LEMMA InvalidatorTyped ==
    ASSUME TypeOK, NEW i \in Invalidator, InvalidatorStep(i)
    PROVE  TypeOK'
<1> DEFINE Rec == [pc : InvalidatorPC, rs : Scope \cup {Blank},
                   rc : Class \cup {Blank}, at : Nat]
<1>1. iv \in [Invalidator -> Rec] /\ iv[i] \in Rec
  BY DEF TypeOK
<1>2. iv' \in [Invalidator -> Rec]
  <2>1. \E p \in InvalidatorPC : iv' = [iv EXCEPT ![i] = [iv[i] EXCEPT !.pc = p]]
        \/ iv' = [iv EXCEPT ![i] = IdleInvalidator]
    BY DEF InvalidatorStep, InvalidateBump, InvalidateBumpFails, BreakInvalidator,
           ClearBroken, ReturnInvalidate, InvalidatorPC
  <2>2. IdleInvalidator \in Rec
    BY DEF IdleInvalidator, InvalidatorPC
  <2>3. \A p \in InvalidatorPC : [iv[i] EXCEPT !.pc = p] \in Rec
    BY <1>1
  <2> QED
    BY <1>1, <2>1, <2>2, <2>3
<1>3. CASE InvalidateBump(i) \/ InvalidateBumpFails(i)
  <2>1. Bump(iv[i].rs, iv[i].rc) \/ UNCHANGED gen
    BY <1>3 DEF InvalidateBump, InvalidateBumpFails
  <2>2. GenTypeOK'
    BY <1>1, <2>1, BumpCounters, Zenon DEF TypeOK, GenTypeOK
  <2>3. unrecovered' \in BOOLEAN /\ failing' \subseteq Writer \cup Invalidator
    BY <1>3, Zenon DEF InvalidateBump, InvalidateBumpFails, TypeOK
  <2>4. UNCHANGED <<cache, rd, wr, wm, procVars, pmsVars, floor, rejectedAt>>
    BY <1>3 DEF InvalidateBump, InvalidateBumpFails
  <2> QED
    BY <1>2, <2>2, <2>3, <2>4 DEF TypeOK, procVars, pmsVars
<1>4. CASE BreakInvalidator(i)
  BY <1>2, <1>4 DEF BreakInvalidator, SetBroken, TypeOK, GenTypeOK, pmsVars
<1>5. CASE ClearBroken(i)
  BY <1>2, <1>5, Zenon DEF ClearBroken, TypeOK, GenTypeOK, pmsVars, histVars
<1>6. CASE ReturnInvalidate(i)
  <2>1. floor' \in [Scope -> [Class -> Nat]]
    BY <1>1, <1>6 DEF ReturnInvalidate, Told, TypeOK
  <2> QED
    BY <1>2, <1>6, <2>1 DEF ReturnInvalidate, TypeOK, GenTypeOK, procVars, pmsVars
<1> QED
  BY <1>3, <1>4, <1>5, <1>6 DEF InvalidatorStep

LEMMA WarmerTyped == ASSUME TypeOK, NEW x \in Warmer, WarmerStep(x) PROVE TypeOK'
<1>1. WarmerOK(wm[x])
  BY DEF TypeOK
<1>2. clock \in Nat
  BY ClockAssumption DEF TypeOK
<1>3. DOMAIN wm' = Warmer /\ \A y \in Warmer : WarmerOK(wm'[y])
  <2>1. \E rec : WarmerOK(rec) /\ wm' = [wm EXCEPT ![x] = rec]
    <3>1. CASE WarmKey(x)
      <4> DEFINE k == KeyNow(wm[x].job.res, wm[x].job.scope)
                 rec == [wm[x] EXCEPT !.pc = "fetch", !.key = k]
      <4>1. wm[x].job \in Key
        BY <1>1, <3>1 DEF WarmKey, WarmerOK
      <4>2. k \in Key
        BY <4>1, KeyNowTyped DEF Key, TypeOK
      <4>3. wm' = [wm EXCEPT ![x] = rec]
        BY <3>1, Zenon DEF WarmKey, TypeOK
      <4> HIDE DEF k
      <4>4. WarmerOK(rec)
        BY <1>1, <4>1, <4>2, Zenon DEF WarmerOK, WarmerPC
      <4> QED
        BY <4>3, <4>4, Zenon
    <3>2. CASE WarmAnswer(x)
      <4> DEFINE rec == [wm[x] EXCEPT !.pc = "recheck", !.at = clock]
      <4>1. WarmerOK(rec)
        BY <1>1, <1>2, <3>2, Zenon DEF WarmAnswer, WarmerOK, WarmerPC
      <4>2. wm' = [wm EXCEPT ![x] = rec]
        BY <3>2, Zenon DEF WarmAnswer, TypeOK
      <4> QED
        BY <4>1, <4>2, Zenon
    <3>3. CASE WarmRecheck(x) \/ WarmPermit(x) \/ WarmSet(x)
      <4>1. /\ wm[x].pc \in {"recheck", "permit", "set"}
            /\ \E p \in {"permit", "set", "delete"} :
                  \/ wm' = [wm EXCEPT ![x] = [wm[x] EXCEPT !.pc = p]]
                  \/ wm' = [wm EXCEPT ![x] = IdleWarmer]
        BY <3>3 DEF WarmRecheck, WarmPermit, WarmSet, TypeOK
      <4>2. \A p \in {"permit", "set", "delete"} : WarmerOK([wm[x] EXCEPT !.pc = p])
        BY <1>1, <4>1 DEF WarmerOK, WarmerPC
      <4> QED
        BY <4>1, <4>2, IdleRecords
    <3>4. CASE WarmRejected(x) \/ WarmDelete(x) \/ WarmAbandon(x)
      BY <3>4, IdleRecords DEF WarmRejected, WarmDelete, WarmAbandon
    <3> QED
      BY <3>1, <3>2, <3>3, <3>4 DEF WarmerStep
  <2> QED
    BY <2>1 DEF TypeOK
<1>4. CASE WarmRejected(x)
  <2>1. tracked' \subseteq Key
    BY <1>4 DEF WarmRejected, WithoutScope, TypeOK
  <2> QED
    BY <1>3, <1>4, <2>1 DEF WarmRejected, TypeOK, GenTypeOK, pmsVars, histVars
<1>5. CASE WarmSet(x)
  <2>1. wm[x].key \in Key /\ wm[x].at \in Nat
    BY <1>1, <1>5 DEF WarmSet, WarmerOK
  <2>2. cache' \subseteq Entry
    BY <1>5, <2>1, PutTyped DEF WarmSet, TypeOK
  <2> QED
    BY <1>3, <1>5, <2>2 DEF WarmSet, TypeOK, GenTypeOK, procVars, pmsVars, histVars
<1>6. CASE WarmDelete(x)
  <2>1. cache' \subseteq Entry
    BY <1>6, Zenon DEF WarmDelete, Delete, TypeOK
  <2> QED
    BY <1>3, <1>6, <2>1 DEF WarmDelete, TypeOK, GenTypeOK, procVars, pmsVars, histVars
<1>7. CASE WarmKey(x) \/ WarmAnswer(x) \/ WarmRecheck(x) \/ WarmPermit(x)
           \/ WarmAbandon(x)
  <2>1. UNCHANGED <<gen, cache, rd, wr, iv, procVars, pmsVars, histVars>>
    BY <1>7 DEF WarmKey, WarmAnswer, WarmRecheck, WarmPermit, WarmAbandon
  <2> QED
    BY <1>3, <2>1 DEF TypeOK, GenTypeOK, procVars, pmsVars, histVars
<1> QED
  BY <1>4, <1>5, <1>6, <1>7 DEF WarmerStep

LEMMA EnvironmentTyped == ASSUME TypeOK, Environment PROVE TypeOK'
<1>1. CASE (\E j \in tracked : JobDropped(j)) \/ (\E g \in grants : LeaseExpires(g))
           \/ (\E e \in cache : EntryExpires(e))
  <2>1. cache' \subseteq cache /\ grants' \subseteq grants /\ tracked' \subseteq tracked
    BY <1>1 DEF JobDropped, LeaseExpires, EntryExpires, procVars
  <2>2. UNCHANGED <<gen, broken, flight, rd, wr, iv, wm, pmsVars, histVars>>
    BY <1>1 DEF JobDropped, LeaseExpires, EntryExpires, procVars
  <2> QED
    BY <2>1, <2>2 DEF TypeOK, GenTypeOK, pmsVars, histVars
<1>2. CASE (\E c \in Caller : ChangeAccess(c)) \/ OriginChanges
  <2>1. clock' \in 0..MaxClock
    BY <1>2, ClockAssumption DEF ChangeAccess, OriginChanges, TypeOK
  <2>2. access' \in [Caller -> BOOLEAN]
    BY <1>2, Zenon DEF ChangeAccess, OriginChanges, TypeOK
  <2>3. UNCHANGED <<gen, cache, rd, wr, iv, wm, procVars, histVars>>
    BY <1>2 DEF ChangeAccess, OriginChanges
  <2> QED
    BY <2>1, <2>2, <2>3 DEF TypeOK, GenTypeOK, procVars, histVars
<1>3. CASE Restart
  <2>1. /\ DOMAIN rd' = Reader /\ \A r \in Reader : ReaderOK(rd'[r])
        /\ DOMAIN wr' = Writer /\ \A w \in Writer : WriterOK(wr'[w])
        /\ DOMAIN wm' = Warmer /\ \A x \in Warmer : WarmerOK(wm'[x])
    BY <1>3, IdleRecords DEF Restart, StopHandlers
  <2>2. iv' \in [Invalidator -> [pc : InvalidatorPC, rs : Scope \cup {Blank},
                                rc : Class \cup {Blank}, at : Nat]]
    BY <1>3 DEF Restart, StopHandlers, IdleInvalidator, InvalidatorPC
  <2> QED
    BY <1>3, <2>1, <2>2, Zenon DEF Restart, StopHandlers, TypeOK, GenTypeOK, pmsVars
<1> QED
  BY <1>1, <1>2, <1>3 DEF Environment

LEMMA TypeStep == TypeOK /\ [Next]_vars => TypeOK'
<1> SUFFICES ASSUME TypeOK, [Next]_vars PROVE TypeOK'
  OBVIOUS
<1>1. ASSUME NEW r \in Reader, ReaderStep(r) PROVE TypeOK'
  BY <1>1, ReaderLookupTyped, ReaderFillTyped DEF ReaderStep
<1>2. CASE UNCHANGED vars
  BY <1>2 DEF vars, TypeOK, GenTypeOK
<1> QED
  BY <1>1, <1>2, ArrivalTyped, WriterTyped, InvalidatorTyped, WarmerTyped,
     EnvironmentTyped DEF Next

\* No handler of proxy.go, warmer.go or scheduling.go ever uses a caller, a
\* key or a job it has not set, in any interleaving and across restarts.
THEOREM TypeCorrect == Spec => []TypeOK
BY TypeInit, TypeStep, PTL DEF Spec


-----------------------------------------------------------------------------
(* One fill per key.                                                        *)

\* The ways a step meets the flight table: it does not, a request registers
\* its key, a request returns and its key goes, or the process restarts.
FlightKept ==
    /\ flight' = flight
    /\ \A q \in Reader : /\ rd'[q].hold = rd[q].hold
                         /\ rd[q].hold => rd'[q].key = rd[q].key
FlightBegins(r) ==
    /\ rd[r].key \notin flight /\ ~rd[r].hold
    /\ flight' = flight \cup {rd[r].key}
    /\ rd'[r].hold /\ rd'[r].key = rd[r].key
    /\ \A q \in Reader \ {r} : rd'[q] = rd[q]
FlightEnds(r) ==
    /\ flight' = IF rd[r].hold THEN flight \ {rd[r].key} ELSE flight
    /\ ~rd'[r].hold
    /\ \A q \in Reader \ {r} : rd'[q] = rd[q]
FlightsLost == flight' = {} /\ \A q \in Reader : ~rd'[q].hold

LEMMA FlightTable ==
    ASSUME TypeOK, SingleFlight,
           \/ FlightKept \/ FlightsLost
           \/ \E r \in Reader : FlightBegins(r) \/ FlightEnds(r)
    PROVE  SingleFlight'
<1>1. /\ \A r \in Reader : rd[r].hold \in BOOLEAN
      /\ flight = {rd[r].key : r \in {q \in Reader : rd[q].hold}}
      /\ \A q, r \in Reader :
            rd[q].hold /\ rd[r].hold /\ rd[q].key = rd[r].key => q = r
  BY Zenon DEF TypeOK, ReaderOK, SingleFlight
<1>2. SUFFICES /\ \A k : k \in flight' <=> \E q \in Reader : rd'[q].hold /\ rd'[q].key = k
               /\ \A q, r \in Reader :
                     rd'[q].hold /\ rd'[r].hold /\ rd'[q].key = rd'[r].key => q = r
  BY DEF SingleFlight
<1>3. CASE FlightKept
  BY <1>1, <1>3 DEF FlightKept
<1>4. CASE FlightsLost
  BY <1>4 DEF FlightsLost
<1>5. ASSUME NEW r \in Reader, FlightBegins(r)
      PROVE  /\ \A k : k \in flight' <=> \E q \in Reader : rd'[q].hold /\ rd'[q].key = k
             /\ \A p, q \in Reader :
                   rd'[p].hold /\ rd'[q].hold /\ rd'[p].key = rd'[q].key => p = q
  BY <1>1, <1>5 DEF FlightBegins
<1>6. ASSUME NEW r \in Reader, FlightEnds(r)
      PROVE  /\ \A k : k \in flight' <=> \E q \in Reader : rd'[q].hold /\ rd'[q].key = k
             /\ \A p, q \in Reader :
                   rd'[p].hold /\ rd'[q].hold /\ rd'[p].key = rd'[q].key => p = q
  BY <1>1, <1>6 DEF FlightEnds
<1> QED
  BY <1>3, <1>4, <1>5, <1>6

\* A request that replaces its own record and touches no flight.
LEMMA RecordKept ==
    ASSUME TypeOK, NEW r \in Reader, NEW rec, ToReader(r, rec), flight' = flight,
           rec.hold = rd[r].hold, rd[r].hold => rec.key = rd[r].key
    PROVE  FlightKept
BY DEF TypeOK, ToReader, FlightKept

LEMMA FinishEnds ==
    ASSUME TypeOK, NEW r \in Reader, Finish(r)
    PROVE  FlightEnds(r)
BY DEF TypeOK, Finish, ToReader, FlightEnds, IdleReader

\* The steps of a browse request.
LEMMA ReaderFlight ==
    ASSUME TypeOK, NEW r \in Reader, ReaderStep(r)
    PROVE  FlightKept \/ FlightBegins(r) \/ FlightEnds(r)
<1>1. ReaderOK(rd[r]) /\ DOMAIN rd = Reader
  BY DEF TypeOK
<1>2. /\ rd[r].hold \in BOOLEAN
      /\ rd[r].pc \notin FillPC => ~rd[r].hold
      /\ rd[r] \in [pc : ReaderPC, caller : Caller \cup {None},
             scope : Scope \cup {None}, key : Key \cup {None},
             next : {"flight", "begin", "fetch"}, hold : BOOLEAN,
             at : Nat, need : Nat, closed : BOOLEAN]
  BY <1>1 DEF ReaderOK
<1>3. CASE \/ Gate(r) \/ ServeCache(r) \/ CheckLease(r) \/ ReadCache(r)
           \/ ReloadBroken(r) \/ RecheckGeneration(r)
           \/ WaitForFlight(r) \/ PollFlight(r) \/ FlightTimeout(r)
           \/ Answer(r)
  <2>1. flight' = flight
    BY <1>3, Zenon DEF Gate, ServeCache, CheckLease, ReadCache, ReloadBroken, procVars,
       RecheckGeneration, WaitForFlight, PollFlight, FlightTimeout, Answer
  <2>2. /\ \A q \in Reader \ {r} : rd'[q] = rd[q]
        /\ rd'[r].hold = rd[r].hold
        /\ rd[r].hold => rd'[r].key = rd[r].key
    <3>1. CASE Gate(r)
      <4>1. /\ rd[r].pc = "gate" /\ ~rd[r].hold
            /\ rd' = [rd EXCEPT ![r] = IF broken THEN [rd[r] EXCEPT !.pc = "fetch", !.key = None]
                                       ELSE [rd[r] EXCEPT !.pc = "broken"]]
        BY <1>2, <3>1 DEF Gate, ToReader, FillPC
      <4>2. rd'[r].hold = rd[r].hold
        BY <1>1, <1>2, <4>1
      <4> QED
        BY <1>1, <4>1, <4>2
    <3>2. CASE ServeCache(r)
      <4>1. CASE broken
        BY <1>1, <1>2, <3>2, <4>1, Zenon DEF ServeCache, Miss, ToReader
      <4>2. CASE ~broken
        <5>1. PICK need, closed :
                 rd' = [rd EXCEPT ![r] = [rd[r] EXCEPT !.pc = "lease", !.need = need,
                                                       !.closed = closed]]
          BY <3>2, <4>2, Zenon DEF ServeCache, ToReader
        <5> QED
          BY <1>1, <1>2, <5>1
      <4> QED
        BY <4>1, <4>2
    <3>3. CASE CheckLease(r)
      BY <1>1, <1>2, <3>3, Zenon DEF CheckLease, Miss, ToReader
    <3>4. CASE ReadCache(r)
      BY <1>1, <1>2, <3>4, Zenon DEF ReadCache, Miss, ToReader
    <3>5. CASE ReloadBroken(r)
      BY <1>1, <1>2, <3>5, Zenon DEF ReloadBroken, Miss, ToReader
    <3>6. CASE RecheckGeneration(r)
      BY <1>1, <1>2, <3>6, Zenon DEF RecheckGeneration, Miss, ToReader
    <3>7. CASE WaitForFlight(r)
      BY <1>1, <1>2, <3>7 DEF WaitForFlight, ToReader
    <3>8. CASE PollFlight(r)
      BY <1>1, <1>2, <3>8 DEF PollFlight, ToReader
    <3>9. CASE FlightTimeout(r)
      BY <1>1, <1>2, <3>9 DEF FlightTimeout, ToReader
    <3>10. CASE Answer(r)
      BY <1>1, <1>2, <3>10 DEF Answer, ToReader
    <3> QED
      BY <1>3, <3>1, <3>2, <3>3, <3>4, <3>5, <3>6, <3>7, <3>8, <3>9, <3>10, Zenon
  <2> QED
    BY <2>1, <2>2 DEF FlightKept
<1>4. CASE Finish(r)
  BY <1>4, FinishEnds
<1>5. CASE TryBeginFlight(r)
  <2>1. ~rd[r].hold
    BY <1>2, <1>5 DEF TryBeginFlight, FillPC
  <2>2. CASE rd[r].key \notin flight
    BY <1>1, <1>2, <1>5, <2>1, <2>2, Zenon DEF TryBeginFlight, ToReader, FlightBegins
  <2>3. CASE rd[r].key \in flight
    BY <1>2, <1>5, <2>1, <2>3, RecordKept, Zenon DEF TryBeginFlight
  <2> QED
    BY <2>2, <2>3
<1>6. CASE CopyBody(r) \/ RecheckBeforeSet(r)
  BY <1>2, <1>4, <1>6, RecordKept DEF CopyBody, RecheckBeforeSet
<1>7. CASE SetEntry(r) \/ Grant(r)
  BY <1>2, <1>7, RecordKept, Zenon DEF SetEntry, Grant, procVars
<1> QED
  BY <1>3, <1>4, <1>5, <1>6, <1>7, Zenon DEF ReaderStep, WriteHit, AnswerNotStored,
     RevokeRejected, SetEntryFails, Track

LEMMA ArrivalFlight ==
    ASSUME TypeOK, Arrival
    PROVE  FlightKept
<1>1. ASSUME NEW r \in Reader, NEW c, NEW s,
             \/ \E res \in Resource : Observe(r, c, s, res)
             \/ ObserveBypass(r, c, s) \/ ObserveInvalid(r, c, s)
      PROVE  FlightKept
  <2>1. ~rd[r].hold
    BY <1>1, Zenon DEF Observe, ObserveBypass, ObserveInvalid, TypeOK, ReaderOK, FillPC
  <2>2. /\ flight' = flight /\ rd'[r].hold = FALSE
        /\ \A q \in Reader \ {r} : rd'[q] = rd[q]
    <3>1. ASSUME NEW res \in Resource, Observe(r, c, s, res)
          PROVE  /\ flight' = flight /\ rd'[r].hold = FALSE
                 /\ \A q \in Reader \ {r} : rd'[q] = rd[q]
      BY <3>1 DEF TypeOK, Observe, ToReader, IdleReader, procVars
    <3>2. CASE ObserveBypass(r, c, s)
      BY <3>2 DEF TypeOK, ObserveBypass, ToReader, IdleReader, procVars
    <3>3. CASE ObserveInvalid(r, c, s)
      BY <3>3 DEF TypeOK, ObserveInvalid, ToReader, IdleReader
    <3> QED
      BY <1>1, <3>1, <3>2, <3>3, Zenon
  <2>3. rd[r].hold = FALSE
    BY <2>1 DEF TypeOK, ReaderOK
  <2> QED
    BY <2>2, <2>3, Zenon DEF FlightKept
<1>2. CASE rd' = rd /\ flight' = flight
  BY <1>2 DEF FlightKept
<1> QED
  BY <1>1, <1>2, Zenon DEF Arrival, BeginWrite, BeginInvalidate, PickJob, procVars

LEMMA OtherFlight ==
    ASSUME \/ \E w \in Writer : WriterStep(w)
           \/ \E i \in Invalidator : InvalidatorStep(i)
           \/ \E x \in Warmer : WarmerStep(x)
           \/ Environment
    PROVE  FlightKept \/ FlightsLost
<1>1. CASE \E w \in Writer : WriterStep(w)
  BY <1>1 DEF WriterStep, AnswerWrite, WriteFails, RevokeWriter, BumpStateGeneration,
     BumpStateGenerationFails, BreakWriter, AckWrite, procVars, FlightKept
<1>2. CASE \E i \in Invalidator : InvalidatorStep(i)
  BY <1>2 DEF InvalidatorStep, InvalidateBump, InvalidateBumpFails, BreakInvalidator,
     ClearBroken, ReturnInvalidate, procVars, FlightKept
<1>3. CASE \E x \in Warmer : WarmerStep(x)
  BY <1>3, Zenon DEF WarmerStep, WarmKey, WarmAnswer, WarmRejected, WarmRecheck, WarmPermit,
     WarmSet, WarmDelete, WarmAbandon, procVars, FlightKept
<1>4. CASE Environment
  <2>1. CASE Restart
    BY <2>1 DEF Restart, StopHandlers, IdleReader, FlightsLost
  <2>2. CASE Environment /\ ~Restart
    BY <2>2 DEF Environment, JobDropped, EntryExpires, LeaseExpires, ChangeAccess,
       OriginChanges, procVars, FlightKept
  <2> QED
    BY <1>4, <2>1, <2>2
<1> QED
  BY <1>1, <1>2, <1>3, <1>4

\* For any number of requests: at most one fills a key at a time, and the
\* flight table holds exactly the keys of running fills, whichever way they
\* end (tryBeginFlight, endFlight).
THEOREM SingleFlightAlways == Spec => []SingleFlight
<1>1. Init => SingleFlight
  BY DEF Init, SingleFlight, IdleReader
<1>2. TypeOK /\ SingleFlight /\ [Next]_vars => SingleFlight'
  <2> SUFFICES ASSUME TypeOK, SingleFlight, [Next]_vars PROVE SingleFlight'
    OBVIOUS
  <2>1. CASE Arrival
    BY <2>1, ArrivalFlight, FlightTable
  <2>2. ASSUME NEW r \in Reader, ReaderStep(r)
        PROVE  SingleFlight'
    BY <2>2, ReaderFlight, FlightTable
  <2>3. CASE \/ \E w \in Writer : WriterStep(w)
             \/ \E i \in Invalidator : InvalidatorStep(i)
             \/ \E x \in Warmer : WarmerStep(x)
             \/ Environment
    BY <2>3, OtherFlight, FlightTable
  <2>4. CASE UNCHANGED vars
    BY <2>4 DEF vars, SingleFlight
  <2> QED
    BY <2>1, <2>2, <2>3, <2>4 DEF Next
<1> QED
  BY <1>1, <1>2, TypeCorrect, PTL DEF Spec

-----------------------------------------------------------------------------
(* What a step may do.                                                      *)

\* An idle handler has nothing: no key, no body, no demand.
LEMMA IdleFields ==
    /\ IdleReader.pc = "idle" /\ IdleReader.key = None /\ IdleReader.at = 0
    /\ IdleReader.need = 0 /\ IdleReader.closed = TRUE
    /\ IdleWriter.pc = "idle" /\ IdleWriter.at = 0
    /\ IdleInvalidator.pc = "idle" /\ IdleInvalidator.at = 0
    /\ IdleWarmer.pc = "idle" /\ IdleWarmer.key = None
<1>1. /\ IdleReader.pc = "idle" /\ IdleReader.key = None /\ IdleReader.at = 0
      /\ IdleReader.need = 0 /\ IdleReader.closed = TRUE
  BY DEF IdleReader
<1>2. IdleWriter.pc = "idle" /\ IdleWriter.at = 0
  BY DEF IdleWriter
<1>3. IdleInvalidator.pc = "idle" /\ IdleInvalidator.at = 0
  BY DEF IdleInvalidator
<1>4. IdleWarmer.pc = "idle" /\ IdleWarmer.key = None
  BY DEF IdleWarmer
<1> QED
  BY <1>1, <1>2, <1>3, <1>4

\* An entry is stored only by a handler at its "set" step.
LEMMA CacheStep ==
    ASSUME TypeOK, [Next]_vars
    PROVE  \A e \in cache' :
              \/ e \in cache
              \/ \E q \in Reader : /\ rd[q].pc = "set"
                                   /\ e.key = rd[q].key /\ e.at = rd[q].at
              \/ \E x \in Warmer : /\ wm[x].pc = "set"
                                   /\ e.key = wm[x].key /\ e.at = wm[x].at
<1> DEFINE Goal == \A e \in cache' :
              \/ e \in cache
              \/ \E q \in Reader : /\ rd[q].pc = "set"
                                   /\ e.key = rd[q].key /\ e.at = rd[q].at
              \/ \E x \in Warmer : /\ wm[x].pc = "set"
                                   /\ e.key = wm[x].key /\ e.at = wm[x].at
<1>1. CASE Arrival
  BY <1>1, Zenon DEF Arrival, Observe, ObserveBypass, ObserveInvalid, BeginWrite,
              BeginInvalidate, PickJob
<1>2. ASSUME NEW r \in Reader, ReaderStep(r) PROVE Goal
  <2>1. CASE SetEntry(r) \/ SetEntryFails(r)
    BY <2>1 DEF SetEntry, SetEntryFails, Put
  <2>2. CASE ~(SetEntry(r) \/ SetEntryFails(r))
    BY <1>2, <2>2, Zenon
    DEF ReaderStep, Gate, ServeCache, CheckLease, ReadCache, ReloadBroken,
        RecheckGeneration, WriteHit, WaitForFlight, PollFlight, FlightTimeout,
        TryBeginFlight, Answer, AnswerNotStored, RevokeRejected, CopyBody,
        RecheckBeforeSet, Grant, Track
  <2> QED
    BY <2>1, <2>2
<1>3. ASSUME NEW w \in Writer, WriterStep(w) PROVE Goal
  BY <1>3 DEF WriterStep, AnswerWrite, WriteFails, RevokeWriter, BumpStateGeneration,
              BumpStateGenerationFails, BreakWriter, AckWrite
<1>4. ASSUME NEW i \in Invalidator, InvalidatorStep(i) PROVE Goal
  BY <1>4 DEF InvalidatorStep, InvalidateBump, InvalidateBumpFails, BreakInvalidator,
              ClearBroken, ReturnInvalidate
<1>5. ASSUME NEW x \in Warmer, WarmerStep(x) PROVE Goal
  <2>1. CASE WarmSet(x)
    BY <2>1 DEF WarmSet, Put
  <2>2. CASE WarmDelete(x)
    BY <2>2 DEF WarmDelete, Delete
  <2>3. CASE ~(WarmSet(x) \/ WarmDelete(x))
    BY <1>5, <2>3 DEF WarmerStep, WarmKey, WarmAnswer, WarmRejected, WarmRecheck,
                      WarmPermit, WarmAbandon
  <2> QED
    BY <2>1, <2>2, <2>3
<1>6. CASE Environment
  BY <1>6, Zenon DEF Environment, JobDropped, EntryExpires, LeaseExpires, ChangeAccess,
              OriginChanges, Restart
<1>7. CASE UNCHANGED vars
  BY <1>7 DEF vars
<1> QED
  BY <1>1, <1>2, <1>3, <1>4, <1>5, <1>6, <1>7 DEF Next

\* Only browse requests, their arrival and a restart change reader records,
\* and each step changes one.  Every new key is the key of that moment.
LEMMA ReaderRecordStep ==
    ASSUME TypeOK, [Next]_vars, NEW q \in Reader
    PROVE  \/ rd'[q] = rd[q]
           \/ rd'[q] = IdleReader
           \/ ReaderStep(q)
           \/ /\ rd[q].pc = "idle" /\ rd'[q].pc \in {"gate", "fetch"}
              /\ rd'[q].need = 0 /\ rd'[q].closed
              /\ gen' = gen
              /\ \/ rd'[q].key = None
                 \/ \E s \in Scope, res \in Resource : rd'[q].key = KeyNow(res, s)
<1> DEFINE Goal == \/ rd'[q] = rd[q]
           \/ rd'[q] = IdleReader
           \/ ReaderStep(q)
           \/ /\ rd[q].pc = "idle" /\ rd'[q].pc \in {"gate", "fetch"}
              /\ rd'[q].need = 0 /\ rd'[q].closed
              /\ gen' = gen
              /\ \/ rd'[q].key = None
                 \/ \E s \in Scope, res \in Resource : rd'[q].key = KeyNow(res, s)
<1>0. DOMAIN rd = Reader
  BY DEF TypeOK
<1>1. ASSUME NEW r \in Reader, NEW c \in Caller, NEW s \in ScopesOf[c],
             \/ \E res \in Resource : Observe(r, c, s, res)
             \/ ObserveBypass(r, c, s)
             \/ ObserveInvalid(r, c, s)
      PROVE  Goal
  <2>1. s \in Scope
    BY ScopesAssumption
  <2>2. \E rec : ToReader(r, rec)
    BY <1>1, Zenon DEF Observe, ObserveBypass, ObserveInvalid
  <2>3. CASE q # r
    BY <1>0, <2>2, <2>3 DEF ToReader
  <2>4. CASE q = r
    <3>0. \A rec : ToReader(q, rec) => rd'[q] = rec
      BY <1>0 DEF ToReader
    <3>1. ASSUME NEW res \in Resource, Observe(q, c, s, res) PROVE Goal
      BY <2>1, <3>0, <3>1, Zenon DEF Observe, IdleReader
    <3>2. ASSUME ObserveBypass(q, c, s) PROVE Goal
      BY <3>0, <3>2, Zenon DEF ObserveBypass, IdleReader
    <3>3. ASSUME ObserveInvalid(q, c, s) PROVE Goal
      BY <3>0, <3>3, Zenon DEF ObserveInvalid, IdleReader
    <3> QED
      BY <1>1, <2>4, <3>1, <3>2, <3>3, Zenon
  <2> QED
    BY <2>3, <2>4
<1>2. ASSUME NEW r \in Reader, ReaderStep(r) PROVE Goal
  <2>1. \E rec : ToReader(r, rec)
    BY <1>2, Zenon
    DEF ReaderStep, Gate, ServeCache, CheckLease, ReadCache, ReloadBroken,
        RecheckGeneration, WriteHit, WaitForFlight, PollFlight, FlightTimeout,
        TryBeginFlight, Answer, AnswerNotStored, RevokeRejected, CopyBody,
        RecheckBeforeSet, SetEntry, SetEntryFails, Grant, Track, Finish, Miss
  <2>2. q # r => rd'[q] = rd[q]
    BY <1>0, <2>1 DEF ToReader
  <2> QED
    BY <1>2, <2>2
<1>3. CASE Restart
  BY <1>3 DEF Restart, StopHandlers
<1>4. CASE UNCHANGED rd
  BY <1>4
<1>5. ASSUME NEW w \in Writer, WriterStep(w) PROVE UNCHANGED rd
  BY <1>5 DEF WriterStep, AnswerWrite, WriteFails, RevokeWriter, BumpStateGeneration,
              BumpStateGenerationFails, BreakWriter, AckWrite
<1>6. ASSUME NEW i \in Invalidator, InvalidatorStep(i) PROVE UNCHANGED rd
  BY <1>6 DEF InvalidatorStep, InvalidateBump, InvalidateBumpFails, BreakInvalidator,
              ClearBroken, ReturnInvalidate
<1>7. ASSUME NEW x \in Warmer, WarmerStep(x) PROVE UNCHANGED rd
  BY <1>7 DEF WarmerStep, WarmKey, WarmAnswer, WarmRejected, WarmRecheck, WarmPermit,
              WarmSet, WarmDelete, WarmAbandon
<1>8. CASE Environment
  BY <1>3, <1>4, <1>8 DEF Environment, JobDropped, EntryExpires, LeaseExpires,
              ChangeAccess, OriginChanges
<1>9. CASE Arrival
  BY <1>1, <1>4, <1>9, Zenon DEF Arrival, BeginWrite, BeginInvalidate, PickJob
<1>10. CASE UNCHANGED vars
  BY <1>10, Zenon DEF vars
<1> QED
  BY <1>2, <1>4, <1>5, <1>6, <1>7, <1>8, <1>9, <1>10, Zenon DEF Next

\* A running fill either keeps the age of its body or has just received it.
LEMMA ReaderFillStep ==
    ASSUME TypeOK, [Next]_vars, NEW q \in Reader,
           rd'[q].pc \in {"body", "regen", "set"}
    PROVE  \/ rd'[q].at = clock
           \/ /\ rd[q].pc \in {"body", "regen", "set"}
              /\ rd'[q].key = rd[q].key /\ rd'[q].at = rd[q].at
<1>0. \A rec : ToReader(q, rec) => rd'[q] = rec
  BY DEF TypeOK, ToReader
<1>1. CASE ReaderStep(q)
  <2>1. rd[q] \in [pc : ReaderPC, caller : Caller \cup {None},
                  scope : Scope \cup {None}, key : Key \cup {None},
                  next : {"flight", "begin", "fetch"}, hold : BOOLEAN,
                  at : Nat, need : Nat, closed : BOOLEAN]
    BY Zenon DEF TypeOK, ReaderOK
  <2>2. CASE Answer(q)
    BY <1>0, <2>1, <2>2, Zenon DEF Answer
  <2>3. ~Finish(q) /\ ~Miss(q)
    <3>1. IdleReader.pc = "idle"
      BY DEF IdleReader
    <3>2. Miss(q) => rd'[q].pc \in {"flight", "begin", "fetch"}
      BY <1>0, <2>1, Zenon DEF Miss
    <3> QED
      BY <1>0, <3>1, <3>2 DEF Finish
  <2>4. CASE CopyBody(q)
    BY <1>0, <2>1, <2>3, <2>4 DEF CopyBody
  <2>5. CASE RecheckBeforeSet(q)
    BY <1>0, <2>1, <2>3, <2>5 DEF RecheckBeforeSet
  <2>6. CASE \/ Gate(q) \/ ServeCache(q) \/ CheckLease(q) \/ ReadCache(q)
             \/ ReloadBroken(q) \/ RecheckGeneration(q)
    <3>1. CASE Gate(q)
      BY <1>0, <2>1, <3>1, Zenon DEF Gate
    <3>2. CASE ServeCache(q)
      BY <1>0, <2>1, <2>3, <3>2, Zenon DEF ServeCache
    <3>3. CASE CheckLease(q) \/ ReadCache(q)
      BY <1>0, <2>1, <2>3, <3>3, Zenon DEF CheckLease, ReadCache
    <3>4. CASE ReloadBroken(q) \/ RecheckGeneration(q)
      BY <1>0, <2>1, <2>3, <3>4 DEF ReloadBroken, RecheckGeneration
    <3> QED
      BY <2>6, <3>1, <3>2, <3>3, <3>4
  <2>7. CASE \/ WaitForFlight(q) \/ PollFlight(q) \/ FlightTimeout(q)
             \/ TryBeginFlight(q) \/ SetEntry(q) \/ Grant(q)
    <3>1. CASE WaitForFlight(q) \/ PollFlight(q) \/ FlightTimeout(q)
      <4>1. rd'[q].pc \in {"waiting", "begin", "broken"}
        BY <1>0, <2>1, <3>1, Zenon DEF WaitForFlight, PollFlight, FlightTimeout
      <4> QED
        BY <4>1
    <3>2. CASE TryBeginFlight(q)
      BY <1>0, <2>1, <3>2, Zenon DEF TryBeginFlight
    <3>3. CASE SetEntry(q)
      BY <1>0, <2>1, <3>3 DEF SetEntry
    <3>4. CASE Grant(q)
      BY <1>0, <2>1, <3>4, Zenon DEF Grant
    <3> QED
      BY <2>7, <3>1, <3>2, <3>3, <3>4
  <2>8. CASE \/ WriteHit(q) \/ AnswerNotStored(q) \/ RevokeRejected(q)
             \/ SetEntryFails(q) \/ Track(q)
    BY <2>3, <2>8 DEF WriteHit, AnswerNotStored, RevokeRejected, SetEntryFails, Track
  <2> QED
    BY <1>1, <2>2, <2>4, <2>5, <2>6, <2>7, <2>8, Zenon DEF ReaderStep
<1>2. CASE rd'[q] = IdleReader
  BY <1>2, IdleFields
<1> QED
  BY <1>1, <1>2, ReaderRecordStep, Zenon

\* The warmer's record changes only by its own steps, PickJob and a restart.
LEMMA WarmerRecordStep ==
    ASSUME TypeOK, [Next]_vars, NEW y \in Warmer
    PROVE  \/ wm'[y] = wm[y]
           \/ wm'[y].pc \in {"idle", "key"} /\ wm'[y].key = None
           \/ WarmerStep(y)
<1> DEFINE Goal == \/ wm'[y] = wm[y]
                   \/ wm'[y].pc \in {"idle", "key"} /\ wm'[y].key = None
                   \/ WarmerStep(y)
<1>0. DOMAIN wm = Warmer
  BY DEF TypeOK
<1>1. ASSUME NEW x \in Warmer, NEW j \in tracked, PickJob(x, j) PROVE Goal
  BY <1>0, <1>1, Zenon DEF PickJob, IdleWarmer
<1>2. ASSUME NEW x \in Warmer, WarmerStep(x) PROVE Goal
  <2>1. \E rec : wm' = [wm EXCEPT ![x] = rec]
    BY <1>2 DEF WarmerStep, WarmKey, WarmAnswer, WarmRejected, WarmRecheck, WarmPermit,
                WarmSet, WarmDelete, WarmAbandon
  <2> QED
    BY <1>0, <1>2, <2>1
<1>3. CASE Restart
  BY <1>3 DEF Restart, StopHandlers, IdleWarmer
<1>4. ASSUME NEW r \in Reader, ReaderStep(r) PROVE UNCHANGED wm
  BY <1>4, Zenon
  DEF ReaderStep, Gate, ServeCache, CheckLease, ReadCache, ReloadBroken,
      RecheckGeneration, WriteHit, WaitForFlight, PollFlight, FlightTimeout,
      TryBeginFlight, Answer, AnswerNotStored, RevokeRejected, CopyBody,
      RecheckBeforeSet, SetEntry, SetEntryFails, Grant, Track
<1>5. ASSUME NEW w \in Writer, WriterStep(w) PROVE UNCHANGED wm
  BY <1>5 DEF WriterStep, AnswerWrite, WriteFails, RevokeWriter, BumpStateGeneration,
              BumpStateGenerationFails, BreakWriter, AckWrite
<1>6. ASSUME NEW i \in Invalidator, InvalidatorStep(i) PROVE UNCHANGED wm
  BY <1>6 DEF InvalidatorStep, InvalidateBump, InvalidateBumpFails, BreakInvalidator,
              ClearBroken, ReturnInvalidate
<1>7. CASE Environment
  BY <1>3, <1>7 DEF Environment, JobDropped, EntryExpires, LeaseExpires,
              ChangeAccess, OriginChanges
<1>8. CASE Arrival
  BY <1>1, <1>8, Zenon DEF Arrival, Observe, ObserveBypass, ObserveInvalid, BeginWrite,
                    BeginInvalidate
<1>9. CASE UNCHANGED vars
  BY <1>9 DEF vars
<1> QED
  BY <1>2, <1>4, <1>5, <1>6, <1>7, <1>8, <1>9 DEF Next

LEMMA WarmerFillStep ==
    ASSUME TypeOK, [Next]_vars, NEW y \in Warmer,
           wm'[y].pc \in {"recheck", "permit", "set"}
    PROVE  \/ wm'[y].at = clock
           \/ /\ wm[y].pc \in {"recheck", "permit", "set"}
              /\ wm'[y].key = wm[y].key /\ wm'[y].at = wm[y].at
<1>1. CASE WarmerStep(y)
  <2>1. /\ DOMAIN wm = Warmer
        /\ wm[y] \in [pc : WarmerPC, job : Key \cup {None}, key : Key \cup {None}, at : Nat]
    BY DEF TypeOK, WarmerOK
  <2>2. wm' # [wm EXCEPT ![y] = IdleWarmer]
    BY <2>1 DEF IdleWarmer
  <2>3. CASE WarmKey(y) \/ WarmAnswer(y)
    BY <2>1, <2>3 DEF WarmKey, WarmAnswer
  <2>4. CASE WarmRecheck(y)
    BY <2>1, <2>2, <2>4, Zenon DEF WarmRecheck
  <2>5. CASE WarmPermit(y)
    BY <2>1, <2>2, <2>5, Zenon DEF WarmPermit
  <2>6. CASE WarmSet(y)
    BY <2>1, <2>2, <2>6 DEF WarmSet
  <2>7. CASE WarmRejected(y) \/ WarmDelete(y) \/ WarmAbandon(y)
    BY <2>2, <2>7 DEF WarmRejected, WarmDelete, WarmAbandon
  <2> QED
    BY <1>1, <2>3, <2>4, <2>5, <2>6, <2>7 DEF WarmerStep
<1> QED
  BY <1>1, WarmerRecordStep

\* A lease is granted only by a request at its "grant" step.
LEMMA GrantStep ==
    ASSUME TypeOK, [Next]_vars
    PROVE  \A g \in grants' :
              \/ g \in grants
              \/ \E q \in Reader : rd[q].pc = "grant" /\ g.key = rd[q].key
<1> DEFINE Goal == \A g \in grants' :
              \/ g \in grants
              \/ \E q \in Reader : rd[q].pc = "grant" /\ g.key = rd[q].key
<1>1. CASE Arrival
  BY <1>1, Zenon DEF Arrival, Observe, ObserveBypass, ObserveInvalid, BeginWrite,
              BeginInvalidate, PickJob, WithoutCaller, procVars
<1>2. ASSUME NEW r \in Reader, ReaderStep(r) PROVE Goal
  <2>1. CASE Grant(r)
    BY <2>1 DEF Grant
  <2>2. CASE RevokeRejected(r)
    BY <2>2 DEF RevokeRejected, Revoke, WithoutCaller
  <2>3. CASE ~(Grant(r) \/ RevokeRejected(r))
    BY <1>2, <2>3, Zenon
    DEF ReaderStep, Gate, ServeCache, CheckLease, ReadCache, ReloadBroken,
        RecheckGeneration, WriteHit, WaitForFlight, PollFlight, FlightTimeout,
        TryBeginFlight, Answer, AnswerNotStored, CopyBody, RecheckBeforeSet,
        SetEntry, SetEntryFails, Track, procVars
  <2> QED
    BY <2>1, <2>2, <2>3
<1>3. ASSUME NEW w \in Writer, WriterStep(w) PROVE Goal
  BY <1>3 DEF WriterStep, AnswerWrite, WriteFails, RevokeWriter, BumpStateGeneration,
              BumpStateGenerationFails, BreakWriter, AckWrite, Revoke, WithoutCaller,
              procVars
<1>4. ASSUME NEW i \in Invalidator, InvalidatorStep(i) PROVE Goal
  BY <1>4 DEF InvalidatorStep, InvalidateBump, InvalidateBumpFails, BreakInvalidator,
              ClearBroken, ReturnInvalidate, procVars
<1>5. ASSUME NEW x \in Warmer, WarmerStep(x) PROVE Goal
  BY <1>5 DEF WarmerStep, WarmKey, WarmAnswer, WarmRejected, WarmRecheck, WarmPermit,
              WarmSet, WarmDelete, WarmAbandon, procVars
<1>6. CASE Environment
  BY <1>6 DEF Environment, JobDropped, EntryExpires, LeaseExpires, ChangeAccess,
              OriginChanges, Restart, procVars
<1>7. CASE UNCHANGED vars
  BY <1>7 DEF vars
<1> QED
  BY <1>1, <1>2, <1>3, <1>4, <1>5, <1>6, <1>7 DEF Next

\* A request reaches its "grant" step only by having stored its body.
LEMMA ReaderGrantStep ==
    ASSUME TypeOK, [Next]_vars, NEW q \in Reader, rd'[q].pc = "grant"
    PROVE  \/ rd'[q] = rd[q]
           \/ /\ rd[q].pc = "set" /\ rd'[q].key = rd[q].key
              /\ cache' = Put(cache, rd[q].key, rd[q].at)
<1>0. \A rec : ToReader(q, rec) => rd'[q] = rec
  BY DEF TypeOK, ToReader
<1>1. CASE ReaderStep(q)
  <2>1. rd[q] \in [pc : ReaderPC, caller : Caller \cup {None},
                  scope : Scope \cup {None}, key : Key \cup {None},
                  next : {"flight", "begin", "fetch"}, hold : BOOLEAN,
                  at : Nat, need : Nat, closed : BOOLEAN]
    BY Zenon DEF TypeOK, ReaderOK
  <2>2. CASE SetEntry(q)
    BY <1>0, <2>1, <2>2 DEF SetEntry
  <2>3. ~Finish(q) /\ ~Miss(q)
    <3>1. IdleReader.pc = "idle"
      BY DEF IdleReader
    <3>2. Miss(q) => rd'[q].pc \in {"flight", "begin", "fetch"}
      BY <1>0, <2>1, Zenon DEF Miss
    <3> QED
      BY <1>0, <3>1, <3>2 DEF Finish
  <2>4. CASE \/ Gate(q) \/ ServeCache(q) \/ CheckLease(q) \/ ReadCache(q)
             \/ ReloadBroken(q) \/ RecheckGeneration(q)
    BY <1>0, <2>1, <2>3, <2>4, Zenon DEF Gate, ServeCache, CheckLease, ReadCache,
                                  ReloadBroken, RecheckGeneration
  <2>5. CASE \/ WaitForFlight(q) \/ PollFlight(q) \/ FlightTimeout(q)
             \/ TryBeginFlight(q) \/ Answer(q) \/ Grant(q)
    BY <1>0, <2>1, <2>5, Zenon DEF WaitForFlight, PollFlight, FlightTimeout,
                            TryBeginFlight, Answer, Grant
  <2>6. CASE \/ WriteHit(q) \/ AnswerNotStored(q) \/ RevokeRejected(q)
             \/ SetEntryFails(q) \/ Track(q) \/ CopyBody(q) \/ RecheckBeforeSet(q)
    BY <1>0, <2>1, <2>3, <2>6 DEF WriteHit, AnswerNotStored, RevokeRejected,
                          SetEntryFails, Track, CopyBody, RecheckBeforeSet
  <2> QED
    BY <1>1, <2>2, <2>4, <2>5, <2>6, Zenon DEF ReaderStep
<1>2. CASE rd'[q] = IdleReader
  BY <1>2, IdleFields
<1> QED
  BY <1>1, <1>2, ReaderRecordStep, Zenon

\* The counters change only by a bump.
LEMMA GenStep ==
    ASSUME TypeOK, [Next]_vars
    PROVE  \/ gen' = gen
           \/ \E rs \in Scope \cup {Blank}, rc \in Class \cup {Blank} : Bump(rs, rc)
<1> DEFINE Goal ==
           \/ gen' = gen
           \/ \E rs \in Scope \cup {Blank}, rc \in Class \cup {Blank} : Bump(rs, rc)
<1>1. CASE Arrival
  BY <1>1, Zenon DEF Arrival, Observe, ObserveBypass, ObserveInvalid, BeginWrite,
              BeginInvalidate, PickJob
<1>2. ASSUME NEW r \in Reader, ReaderStep(r) PROVE gen' = gen
  BY <1>2, Zenon
  DEF ReaderStep, Gate, ServeCache, CheckLease, ReadCache, ReloadBroken,
      RecheckGeneration, WriteHit, WaitForFlight, PollFlight, FlightTimeout,
      TryBeginFlight, Answer, AnswerNotStored, RevokeRejected, CopyBody,
      RecheckBeforeSet, SetEntry, SetEntryFails, Grant, Track
<1>3. ASSUME NEW w \in Writer, WriterStep(w) PROVE Goal
  <2>1. CASE BumpStateGeneration(w) \/ BumpStateGenerationFails(w)
    <3>1. wr[w].scope \in Scope
      BY <2>1 DEF BumpStateGeneration, BumpStateGenerationFails, TypeOK, WriterOK
    <3> QED
      BY <2>1, <3>1 DEF BumpStateGeneration, BumpStateGenerationFails, BumpScope
  <2>2. CASE ~(BumpStateGeneration(w) \/ BumpStateGenerationFails(w))
    BY <1>3, <2>2 DEF WriterStep, AnswerWrite, WriteFails, RevokeWriter, BreakWriter,
                      AckWrite
  <2> QED
    BY <2>1, <2>2
<1>4. ASSUME NEW i \in Invalidator, InvalidatorStep(i) PROVE Goal
  <2>1. iv[i].rs \in Scope \cup {Blank} /\ iv[i].rc \in Class \cup {Blank}
    BY DEF TypeOK
  <2> QED
    BY <1>4, <2>1 DEF InvalidatorStep, InvalidateBump, InvalidateBumpFails,
              BreakInvalidator, ClearBroken, ReturnInvalidate
<1>5. ASSUME NEW x \in Warmer, WarmerStep(x) PROVE gen' = gen
  BY <1>5 DEF WarmerStep, WarmKey, WarmAnswer, WarmRejected, WarmRecheck, WarmPermit,
              WarmSet, WarmDelete, WarmAbandon
<1>6. CASE Environment
  BY <1>6 DEF Environment, JobDropped, EntryExpires, LeaseExpires, ChangeAccess,
              OriginChanges, Restart
<1>7. CASE UNCHANGED vars
  BY <1>7 DEF vars
<1> QED
  BY <1>1, <1>2, <1>3, <1>4, <1>5, <1>6, <1>7 DEF Next

-----------------------------------------------------------------------------
(* Freshness is stable, and a bump moves to unused keys.                    *)

LEMMA FillingStable ==
    ASSUME TypeOK, [Next]_vars, NEW k \in Key, NEW n \in Nat, n <= clock,
           Filling(k, n)
    PROVE  Filling(k, n)'
<1>1. clock \in Nat
  BY ClockAssumption DEF TypeOK
<1>2. ASSUME NEW q \in Reader, rd'[q].key = k, rd'[q].pc \in {"body", "regen", "set"}
      PROVE  rd'[q].at >= n
  BY <1>1, <1>2, ReaderFillStep DEF Filling
<1>3. ASSUME NEW y \in Warmer, wm'[y].key = k, wm'[y].pc \in {"recheck", "permit", "set"}
      PROVE  wm'[y].at >= n
  BY <1>1, <1>3, WarmerFillStep DEF Filling
<1> QED
  BY <1>2, <1>3 DEF Filling

LEMMA StoredStable ==
    ASSUME TypeOK, [Next]_vars, NEW k \in Key, NEW n \in Nat,
           Filling(k, n), Stored(k, n)
    PROVE  Stored(k, n)'
<1> SUFFICES ASSUME NEW e \in cache', e.key = k PROVE e.at >= n
  BY DEF Stored
<1>1. CASE e \in cache
  BY <1>1 DEF Stored
<1>2. ASSUME NEW q \in Reader, rd[q].pc = "set", e.key = rd[q].key, e.at = rd[q].at
      PROVE  e.at >= n
  BY <1>2 DEF Filling
<1>3. ASSUME NEW y \in Warmer, wm[y].pc = "set", e.key = wm[y].key, e.at = wm[y].at
      PROVE  e.at >= n
  BY <1>3 DEF Filling
<1> QED
  BY <1>1, <1>2, <1>3, CacheStep

LEMMA FreshStable ==
    ASSUME TypeOK, [Next]_vars, NEW k \in Key, NEW n \in Nat, n <= clock,
           Fresh(k, n)
    PROVE  Fresh(k, n)'
<1>1. Filling(k, n) /\ Filling(k, n)'
  BY FillingStable DEF Fresh
<1>2. ASSUME NEW q \in Reader, rd[q].pc = "set", rd[q].key = k,
             cache' = Put(cache, rd[q].key, rd[q].at)
      PROVE  Stored(k, n)'
  <2>1. rd[q].at >= n
    BY <1>1, <1>2 DEF Filling
  <2> QED
    BY <1>2, <2>1 DEF Put, Stored
<1>3. CASE Vouched(k)
  BY <1>1, <1>3, StoredStable DEF Fresh
<1>4. CASE ~Vouched(k)
  <2> SUFFICES ASSUME Vouched(k)' PROVE Stored(k, n)'
    BY <1>1 DEF Fresh
  <2>1. \A g \in grants' : g.key # k
    BY <1>4, GrantStep DEF Vouched
  <2>2. PICK q \in Reader : rd'[q].key = k /\ rd'[q].pc = "grant"
    BY <2>1 DEF Vouched
  <2>3. rd'[q] # rd[q]
    BY <1>4, <2>2 DEF Vouched
  <2> QED
    BY <1>2, <2>2, <2>3, ReaderGrantStep
<1> QED
  BY <1>3, <1>4

LEMMA EffectiveStep ==
    ASSUME TypeOK, [Next]_vars, NEW s \in Scope, NEW c \in Class
    PROVE  /\ Effective(s, c) \in Nat /\ Effective(s, c)' \in Nat
           /\ Global \in Nat /\ Global' \in Nat
           /\ Effective(s, c) <= Effective(s, c)'
           /\ Global <= Global'
<1>1. GenTypeOK
  BY DEF TypeOK
<1>2. CASE gen' = gen
  <2>1. Effective(s, c)' = Effective(s, c) /\ Global' = Global
    BY <1>2, Zenon DEF Effective, Global, SaturatedAdd
  <2>2. Effective(s, c) \in Nat /\ Global \in Nat
    BY <1>1, NamespaceTyped
  <2> QED
    BY <2>1, <2>2
<1>3. ASSUME NEW rs \in Scope \cup {Blank}, NEW rc \in Class \cup {Blank}, Bump(rs, rc)
      PROVE  /\ Effective(s, c) \in Nat /\ Effective(s, c)' \in Nat
             /\ Global \in Nat /\ Global' \in Nat
             /\ Effective(s, c) <= Effective(s, c)'
             /\ Global <= Global'
  BY <1>1, <1>3, BumpMonotone
<1> QED
  BY <1>2, <1>3, GenStep

LEMMA BehindStable ==
    ASSUME TypeOK, [Next]_vars, NEW k \in Key, Behind(k)
    PROVE  Behind(k)'
<1>1. k.scope \in Scope /\ ClassOf[k.res] \in Class /\ k.eg \in Nat /\ k.gg \in Nat
  BY ResourceAssumption DEF Key
<1>2. /\ Effective(k.scope, ClassOf[k.res]) \in Nat
      /\ Effective(k.scope, ClassOf[k.res])' \in Nat
      /\ Global \in Nat /\ Global' \in Nat
      /\ Effective(k.scope, ClassOf[k.res]) <= Effective(k.scope, ClassOf[k.res])'
      /\ Global <= Global'
  BY <1>1, EffectiveStep
<1> QED
  BY <1>1, <1>2 DEF Behind

\* A key in use that is current after a step was current before it.
LEMMA CurrentStep ==
    ASSUME TypeOK, [Next]_vars, NEW k \in Key, Behind(k), Current(k)'
    PROVE  Current(k)
<1>1. k.scope \in Scope /\ ClassOf[k.res] \in Class /\ k.eg \in Nat /\ k.gg \in Nat
      /\ k = [res |-> k.res, scope |-> k.scope, eg |-> k.eg, gg |-> k.gg]
  BY ResourceAssumption DEF Key
<1>2. /\ Effective(k.scope, ClassOf[k.res]) \in Nat
      /\ Effective(k.scope, ClassOf[k.res])' \in Nat
      /\ Global \in Nat /\ Global' \in Nat
      /\ Effective(k.scope, ClassOf[k.res]) <= Effective(k.scope, ClassOf[k.res])'
      /\ Global <= Global'
  BY <1>1, EffectiveStep
<1>3. k.eg = Effective(k.scope, ClassOf[k.res])' /\ k.gg = Global'
  BY <1>1 DEF Current, KeyNow
<1>4. k.eg = Effective(k.scope, ClassOf[k.res]) /\ k.gg = Global
  BY <1>1, <1>2, <1>3 DEF Behind
<1> QED
  BY <1>1, <1>4 DEF Current, KeyNow

\* Under a key that does not exist yet nothing is stored or being fetched.
LEMMA UnusedFresh ==
    ASSUME TypeOK, KeysBehind, NEW k \in Key, ~Behind(k), NEW n \in Nat
    PROVE  Fresh(k, n)
<1>1. \A r \in Reader : rd[r].key # k
  BY NoneIsNoKey DEF KeysBehind
<1>2. \A x \in Warmer : wm[x].key # k
  BY NoneIsNoKey DEF KeysBehind
<1>3. \A g \in grants : g.key # k
  BY DEF KeysBehind
<1> QED
  BY <1>1, <1>2, <1>3 DEF Fresh, Filling, Vouched

\* The current key of a pair is as fresh after a step as before it, and if it
\* is a new key it is as fresh as can be.
LEMMA NowFresh ==
    ASSUME TypeOK, KeysBehind, [Next]_vars, NEW s \in Scope, NEW res \in Resource,
           NEW n \in Nat, n <= clock,
           \/ Fresh(KeyNow(res, s), n)
           \/ Effective(s, ClassOf[res]) < Effective(s, ClassOf[res])'
           \/ Global < Global'
    PROVE  Fresh(KeyNow(res, s), n)'
<1>1. ClassOf[res] \in Class
  BY ResourceAssumption
<1>2. /\ Effective(s, ClassOf[res]) \in Nat /\ Effective(s, ClassOf[res])' \in Nat
      /\ Global \in Nat /\ Global' \in Nat
      /\ Effective(s, ClassOf[res]) <= Effective(s, ClassOf[res])'
      /\ Global <= Global'
  BY <1>1, EffectiveStep
<1>3. PICK k : k = [res |-> res, scope |-> s,
                    eg |-> Effective(s, ClassOf[res])', gg |-> Global']
  BY Zenon
<1>4. k \in Key /\ k.res = res /\ k.scope = s
      /\ k.eg = Effective(s, ClassOf[res])' /\ k.gg = Global'
  BY <1>2, <1>3 DEF Key
<1>5. Fresh(k, n)
  <2>1. CASE Behind(k)
    <3>1. k.eg <= Effective(s, ClassOf[res]) /\ k.gg <= Global
      BY <1>4, <2>1 DEF Behind
    <3>2. /\ Effective(s, ClassOf[res])' = Effective(s, ClassOf[res])
          /\ Global' = Global
      BY <1>2, <1>4, <3>1
    <3>3. k = KeyNow(res, s)
      BY <1>3, <3>2 DEF KeyNow
    <3>4. Fresh(KeyNow(res, s), n)
      BY <1>2, <3>2
    <3> QED
      BY <3>3, <3>4
  <2>2. CASE ~Behind(k)
    BY <1>4, <2>2, UnusedFresh
  <2> QED
    BY <2>1, <2>2
<1>6. Fresh(k, n)'
  BY <1>4, <1>5, FreshStable
<1>7. k = KeyNow(res, s)'
  BY <1>3 DEF KeyNow
<1> QED
  BY <1>6, <1>7

LEMMA CoveredFreshStable ==
    ASSUME TypeOK, KeysBehind, [Next]_vars, NEW rs, NEW rc,
           NEW n \in Nat, n <= clock, CoveredFresh(rs, rc, n)
    PROVE  CoveredFresh(rs, rc, n)'
<1> SUFFICES ASSUME NEW s \in Scope, NEW res \in Resource,
                    Covers(rs, rc, s, ClassOf[res])
             PROVE  Fresh(KeyNow(res, s), n)'
  BY DEF CoveredFresh, Covers
<1>1. Fresh(KeyNow(res, s), n)
  BY DEF CoveredFresh
<1> QED
  BY <1>1, NowFresh

\* After a bump everything it covers is fresh.
LEMMA BumpFresh ==
    ASSUME TypeOK, KeysBehind, [Next]_vars,
           NEW rs \in Scope \cup {Blank}, NEW rc \in Class \cup {Blank}, Bump(rs, rc),
           NEW n \in Nat, n <= clock
    PROVE  CoveredFresh(rs, rc, n)'
<1> SUFFICES ASSUME NEW s \in Scope, NEW res \in Resource,
                    Covers(rs, rc, s, ClassOf[res])
             PROVE  Fresh(KeyNow(res, s), n)'
  BY DEF CoveredFresh, Covers
<1>1. ClassOf[res] \in Class /\ GenTypeOK
  BY ResourceAssumption DEF TypeOK
<1>2. \/ Effective(s, ClassOf[res]) < Effective(s, ClassOf[res])'
      \/ Global < Global'
  BY <1>1, BumpRenames, NoSaturation
<1> QED
  BY <1>2, NowFresh

-----------------------------------------------------------------------------
(* Keys in use exist.                                                       *)

LEMMA ReaderKeyStep ==
    ASSUME TypeOK, [Next]_vars, NEW q \in Reader
    PROVE  \/ rd'[q].key \in {rd[q].key, None}
           \/ /\ gen' = gen
              /\ \E s \in Scope, res \in Resource : rd'[q].key = KeyNow(res, s)
<1>0. \A rec : ToReader(q, rec) => rd'[q] = rec
  BY DEF TypeOK, ToReader
<1>1. CASE ReaderStep(q)
  <2>1. rd[q] \in [pc : ReaderPC, caller : Caller \cup {None},
                  scope : Scope \cup {None}, key : Key \cup {None},
                  next : {"flight", "begin", "fetch"}, hold : BOOLEAN,
                  at : Nat, need : Nat, closed : BOOLEAN]
    BY DEF TypeOK, ReaderOK
  <2>2. Finish(q) \/ Miss(q) => rd'[q].key \in {rd[q].key, None}
    <3>1. ASSUME Finish(q) PROVE rd'[q].key = None
      <4>1. rd'[q] = IdleReader
        BY <1>0, <3>1 DEF Finish
      <4> QED
        BY <4>1, IdleFields
    <3>2. ASSUME Miss(q) PROVE rd'[q].key = rd[q].key
      BY <1>0, <2>1, <3>2, Zenon DEF Miss
    <3> QED
      BY <3>1, <3>2, Zenon
  <2>3. CASE \/ CheckLease(q) \/ ReadCache(q)
             \/ ReloadBroken(q) \/ RecheckGeneration(q)
    BY <1>0, <2>1, <2>2, <2>3, Zenon DEF CheckLease, ReadCache, ReloadBroken,
       RecheckGeneration
  <2>6. CASE Gate(q) \/ ServeCache(q)
    <3>1. CASE Gate(q)
      BY <1>0, <2>1, <3>1, Zenon DEF Gate
    <3>2. CASE ServeCache(q)
      BY <1>0, <2>1, <2>2, <3>2, Zenon DEF ServeCache
    <3> QED
      BY <2>6, <3>1, <3>2, Zenon
  <2>4. CASE \/ WriteHit(q) \/ WaitForFlight(q) \/ PollFlight(q) \/ FlightTimeout(q)
             \/ TryBeginFlight(q) \/ Answer(q) \/ AnswerNotStored(q)
    BY <1>0, <2>1, <2>2, <2>4, Zenon DEF WriteHit, WaitForFlight, PollFlight, FlightTimeout,
       TryBeginFlight, Answer, AnswerNotStored
  <2>5. CASE \/ RevokeRejected(q) \/ CopyBody(q) \/ RecheckBeforeSet(q)
             \/ SetEntry(q) \/ SetEntryFails(q) \/ Grant(q) \/ Track(q)
    BY <1>0, <2>1, <2>2, <2>5, Zenon DEF RevokeRejected, CopyBody, RecheckBeforeSet, SetEntry,
       SetEntryFails, Grant, Track
  <2> QED
    BY <1>1, <2>3, <2>4, <2>5, <2>6, Zenon DEF ReaderStep
<1>2. CASE ~ReaderStep(q)
  BY <1>2, ReaderRecordStep, IdleFields
<1> QED
  BY <1>1, <1>2

LEMMA WarmerKeyStep ==
    ASSUME TypeOK, [Next]_vars, NEW y \in Warmer
    PROVE  \/ wm'[y].key \in {wm[y].key, None}
           \/ /\ gen' = gen
              /\ \E s \in Scope, res \in Resource : wm'[y].key = KeyNow(res, s)
<1>1. CASE WarmerStep(y)
  <2>1. /\ DOMAIN wm = Warmer
        /\ wm[y] \in [pc : WarmerPC, job : Key \cup {None}, key : Key \cup {None}, at : Nat]
        /\ wm[y].pc # "idle" => wm[y].job \in Key
    BY Zenon DEF TypeOK, WarmerOK
  <2>2. CASE WarmKey(y)
    <3>1. wm[y].job.res \in Resource /\ wm[y].job.scope \in Scope
      BY <2>1, <2>2 DEF WarmKey, Key
    <3> QED
      BY <2>1, <2>2, <3>1 DEF WarmKey
  <2>3. CASE wm' = [wm EXCEPT ![y] = IdleWarmer]
    BY <2>1, <2>3 DEF IdleWarmer
  <2>4. CASE WarmAnswer(y) \/ WarmRecheck(y) \/ WarmPermit(y) \/ WarmSet(y)
    BY <2>1, <2>4 DEF WarmAnswer, WarmRecheck, WarmPermit, WarmSet, IdleWarmer
  <2> QED
    BY <1>1, <2>2, <2>3, <2>4 DEF WarmerStep, WarmRejected, WarmDelete, WarmAbandon
<1>2. CASE ~WarmerStep(y)
  BY <1>2, WarmerRecordStep
<1> QED
  BY <1>1, <1>2

\* A key computed now exists.
LEMMA NowBehind ==
    ASSUME TypeOK, gen' = gen, NEW s \in Scope, NEW res \in Resource,
           NEW k, k = KeyNow(res, s)
    PROVE  Behind(k)'
<1>1. ClassOf[res] \in Class /\ GenTypeOK
  BY ResourceAssumption DEF TypeOK
<1>2. Effective(s, ClassOf[res]) \in Nat /\ Global \in Nat
  BY <1>1, NamespaceTyped
<1>3. Behind(k)
  BY <1>2 DEF Behind, KeyNow
<1> QED
  BY <1>3 DEF Behind, Effective, Global

LEMMA KeysBehindStep ==
    ASSUME TypeOK, KeysBehind, [Next]_vars
    PROVE  KeysBehind'
<1>1. ASSUME NEW e \in cache' PROVE Behind(e.key)'
  <2>1. e.key \in Key /\ Behind(e.key)
    <3>1. CASE e \in cache
      BY <3>1 DEF KeysBehind, TypeOK, Entry
    <3>2. CASE \E q \in Reader : rd[q].pc = "set" /\ e.key = rd[q].key
      <4>1. PICK q \in Reader : rd[q].pc = "set" /\ e.key = rd[q].key
        BY <3>2
      <4>2. rd[q].key \in Key
        BY <4>1, Zenon DEF TypeOK, ReaderOK, KeyedPC, ReaderPC
      <4> QED
        BY <4>1, <4>2, NoneIsNoKey DEF KeysBehind
    <3>3. CASE \E x \in Warmer : wm[x].pc = "set" /\ e.key = wm[x].key
      BY <3>3, NoneIsNoKey, Zenon DEF KeysBehind, TypeOK, WarmerOK
    <3> QED
      BY <3>1, <3>2, <3>3, CacheStep
  <2> QED
    BY <2>1, BehindStable
<1>2. ASSUME NEW g \in grants' PROVE Behind(g.key)'
  <2>1. g.key \in Key /\ Behind(g.key)
    <3>1. CASE g \in grants
      BY <3>1, Zenon DEF KeysBehind, TypeOK, Lease
    <3>2. CASE \E q \in Reader : rd[q].pc = "grant" /\ g.key = rd[q].key
      <4>1. PICK q \in Reader : rd[q].pc = "grant" /\ g.key = rd[q].key
        BY <3>2
      <4>2. rd[q].key \in Key
        BY <4>1, Zenon DEF TypeOK, ReaderOK, KeyedPC, ReaderPC
      <4> QED
        BY <4>1, <4>2, NoneIsNoKey, Zenon DEF KeysBehind
    <3> QED
      BY <3>1, <3>2, GrantStep
  <2> QED
    BY <2>1, BehindStable
<1>3. ASSUME NEW q \in Reader, NEW k, k = rd'[q].key, k # None PROVE Behind(k)'
  <2>1. CASE k = rd[q].key
    <3>1. k \in Key
      BY <1>3, <2>1 DEF TypeOK, ReaderOK
    <3>2. Behind(k)
      BY <1>3, <2>1 DEF KeysBehind
    <3> QED
      BY <3>1, <3>2, BehindStable
  <2>2. CASE gen' = gen /\ \E s \in Scope, res \in Resource : k = KeyNow(res, s)
    BY <2>2, NowBehind
  <2> QED
    BY <1>3, <2>1, <2>2, ReaderKeyStep, Zenon
<1>4. ASSUME NEW y \in Warmer, NEW k, k = wm'[y].key, k # None PROVE Behind(k)'
  <2>1. CASE k = wm[y].key
    <3>1. k \in Key
      BY <1>4, <2>1 DEF TypeOK, WarmerOK
    <3>2. Behind(k)
      BY <1>4, <2>1 DEF KeysBehind
    <3> QED
      BY <3>1, <3>2, BehindStable
  <2>2. CASE gen' = gen /\ \E s \in Scope, res \in Resource : k = KeyNow(res, s)
    BY <2>2, NowBehind
  <2> QED
    BY <1>4, <2>1, <2>2, WarmerKeyStep, Zenon
<1> QED
  BY <1>1, <1>2, <1>3, <1>4, Zenon DEF KeysBehind, Behind, Effective, Global

-----------------------------------------------------------------------------
(* What a step may do to the promises and to the handlers that make them.   *)

\* An invalidation of everything.
InvalidateAll(i) == InvalidateBump(i) /\ iv[i].rs = Blank /\ iv[i].rc = Blank

\* A step other than a restart or an invalidation of everything forgets no
\* failed bump, and only the return of a handler changes what clients know.
LEMMA HistoryStep ==
    ASSUME TypeOK, [Next]_vars
    PROVE  \/ Restart
           \/ \E i \in Invalidator : InvalidateAll(i)
           \/ /\ unrecovered => unrecovered'
              /\ \A h \in failing : \/ h \in failing'
                                    \/ h \in Writer /\ BreakWriter(h)
                                    \/ h \in Invalidator /\ BreakInvalidator(h)
              /\ \/ floor' = floor
                 \/ \E w \in Writer : AckWrite(w)
                 \/ \E i \in Invalidator : ReturnInvalidate(i)
<1> DEFINE Kept ==
              /\ unrecovered => unrecovered'
              /\ \A h \in failing : \/ h \in failing'
                                    \/ h \in Writer /\ BreakWriter(h)
                                    \/ h \in Invalidator /\ BreakInvalidator(h)
              /\ \/ floor' = floor
                 \/ \E w \in Writer : AckWrite(w)
                 \/ \E i \in Invalidator : ReturnInvalidate(i)
<1>0. floor' = floor /\ failing' = failing /\ unrecovered' = unrecovered => Kept
  OBVIOUS
<1>1. CASE Arrival
  <2>1. floor' = floor /\ failing' = failing /\ unrecovered' = unrecovered
    BY <1>1, Zenon DEF Arrival, Observe, ObserveBypass, ObserveInvalid, BeginWrite,
                BeginInvalidate, PickJob, histVars
  <2> QED
    BY <1>0, <2>1
<1>2. ASSUME NEW r \in Reader, ReaderStep(r) PROVE Kept
  <2>1. floor' = floor /\ failing' = failing /\ unrecovered' = unrecovered
    BY <1>2, Zenon
    DEF ReaderStep, Gate, ServeCache, CheckLease, ReadCache, ReloadBroken,
        RecheckGeneration, WriteHit, WaitForFlight, PollFlight, FlightTimeout,
        TryBeginFlight, Answer, AnswerNotStored, RevokeRejected, CopyBody,
        RecheckBeforeSet, SetEntry, SetEntryFails, Grant, Track, histVars
  <2> QED
    BY <1>0, <2>1
<1>3. ASSUME NEW w \in Writer, WriterStep(w) PROVE Kept
  <2>1. CASE AnswerWrite(w) \/ WriteFails(w) \/ RevokeWriter(w) \/ BumpStateGeneration(w)
    BY <1>0, <2>1 DEF AnswerWrite, WriteFails, RevokeWriter, BumpStateGeneration, histVars
  <2>2. CASE BumpStateGenerationFails(w)
    BY <2>2 DEF BumpStateGenerationFails
  <2>3. CASE BreakWriter(w)
    <3>1. /\ unrecovered' = (unrecovered \/ w \in failing)
          /\ failing' = failing \ {w} /\ floor' = floor
      BY <2>3 DEF BreakWriter, SetBroken
    <3> QED
      BY <2>3, <3>1, Zenon
  <2>4. CASE AckWrite(w)
    <3>1. failing' = failing /\ unrecovered' = unrecovered
      BY <2>4 DEF AckWrite
    <3> QED
      BY <2>4, <3>1
  <2> QED
    BY <1>3, <2>1, <2>2, <2>3, <2>4 DEF WriterStep
<1>4. ASSUME NEW i \in Invalidator, InvalidatorStep(i), ~InvalidateAll(i) PROVE Kept
  <2>1. CASE InvalidateBump(i)
    <3>1. floor' = floor /\ failing' = failing /\ unrecovered' = unrecovered
      <4>1. ~(iv[i].rs = Blank /\ iv[i].rc = Blank)
        BY <1>4, <2>1 DEF InvalidateAll
      <4> QED
        BY <2>1, <4>1 DEF InvalidateBump, TypeOK
    <3> QED
      BY <1>0, <3>1
  <2>2. CASE InvalidateBumpFails(i)
    BY <2>2 DEF InvalidateBumpFails
  <2>3. CASE BreakInvalidator(i)
    <3>1. /\ unrecovered' = (unrecovered \/ i \in failing)
          /\ failing' = failing \ {i} /\ floor' = floor
      BY <2>3 DEF BreakInvalidator, SetBroken
    <3> QED
      BY <2>3, <3>1, Zenon
  <2>4. CASE ClearBroken(i)
    BY <1>0, <2>4 DEF ClearBroken, histVars
  <2>5. CASE ReturnInvalidate(i)
    <3>1. failing' = failing /\ unrecovered' = unrecovered
      BY <2>5 DEF ReturnInvalidate
    <3> QED
      BY <2>5, <3>1
  <2> QED
    BY <1>4, <2>1, <2>2, <2>3, <2>4, <2>5 DEF InvalidatorStep
<1>5. ASSUME NEW x \in Warmer, WarmerStep(x) PROVE Kept
  <2>1. floor' = floor /\ failing' = failing /\ unrecovered' = unrecovered
    BY <1>5 DEF WarmerStep, WarmKey, WarmAnswer, WarmRejected, WarmRecheck, WarmPermit,
       WarmSet, WarmDelete, WarmAbandon, histVars
  <2> QED
    BY <1>0, <2>1
<1>6. CASE Environment /\ ~Restart
  <2>1. floor' = floor /\ failing' = failing /\ unrecovered' = unrecovered
    BY <1>6 DEF Environment, JobDropped, EntryExpires, LeaseExpires, ChangeAccess,
       OriginChanges, histVars
  <2> QED
    BY <1>0, <2>1
<1>7. CASE UNCHANGED vars
  BY <1>0, <1>7 DEF vars
<1> QED
  BY <1>1, <1>2, <1>3, <1>4, <1>5, <1>6, <1>7 DEF Next

LEMMA WriterRecordStep ==
    ASSUME TypeOK, [Next]_vars, NEW v \in Writer
    PROVE  \/ wr'[v] = wr[v]
           \/ wr'[v].pc \in {"idle", "fetch"} /\ wr'[v].at = 0
           \/ WriterStep(v)
<1> DEFINE Goal == \/ wr'[v] = wr[v]
                   \/ wr'[v].pc \in {"idle", "fetch"} /\ wr'[v].at = 0
                   \/ WriterStep(v)
<1>0. DOMAIN wr = Writer
  BY DEF TypeOK
<1>1. ASSUME NEW w \in Writer, NEW c \in Caller, NEW s \in ScopesOf[c], BeginWrite(w, c, s)
      PROVE  Goal
  BY <1>0, <1>1 DEF BeginWrite, IdleWriter
<1>2. ASSUME NEW w \in Writer, WriterStep(w) PROVE Goal
  <2>1. \E rec : wr' = [wr EXCEPT ![w] = rec]
    BY <1>2 DEF WriterStep, AnswerWrite, WriteFails, RevokeWriter, BumpStateGeneration,
       BumpStateGenerationFails, BreakWriter, AckWrite
  <2> QED
    BY <1>0, <1>2, <2>1
<1>3. CASE Restart
  BY <1>3 DEF Restart, StopHandlers, IdleWriter
<1>4. ASSUME NEW r \in Reader, ReaderStep(r) PROVE wr' = wr
  BY <1>4, Zenon
  DEF ReaderStep, Gate, ServeCache, CheckLease, ReadCache, ReloadBroken,
      RecheckGeneration, WriteHit, WaitForFlight, PollFlight, FlightTimeout,
      TryBeginFlight, Answer, AnswerNotStored, RevokeRejected, CopyBody,
      RecheckBeforeSet, SetEntry, SetEntryFails, Grant, Track
<1>5. ASSUME NEW i \in Invalidator, InvalidatorStep(i) PROVE wr' = wr
  BY <1>5 DEF InvalidatorStep, InvalidateBump, InvalidateBumpFails, BreakInvalidator,
     ClearBroken, ReturnInvalidate
<1>6. ASSUME NEW x \in Warmer, WarmerStep(x) PROVE wr' = wr
  BY <1>6 DEF WarmerStep, WarmKey, WarmAnswer, WarmRejected, WarmRecheck, WarmPermit,
     WarmSet, WarmDelete, WarmAbandon
<1>7. CASE Environment /\ ~Restart
  BY <1>7 DEF Environment, JobDropped, EntryExpires, LeaseExpires, ChangeAccess,
     OriginChanges
<1>8. CASE Arrival
  BY <1>1, <1>8, Zenon DEF Arrival, Observe, ObserveBypass, ObserveInvalid, BeginInvalidate,
     PickJob
<1>9. CASE UNCHANGED vars
  BY <1>9, Zenon DEF vars
<1> QED
  BY <1>2, <1>3, <1>4, <1>5, <1>6, <1>7, <1>8, <1>9, Zenon DEF Next

LEMMA InvalidatorRecordStep ==
    ASSUME TypeOK, [Next]_vars, NEW v \in Invalidator
    PROVE  \/ iv'[v] = iv[v]
           \/ iv'[v].pc \in {"idle", "bump"} /\ iv'[v].at \in {0, clock}
           \/ InvalidatorStep(v)
<1> DEFINE Goal == \/ iv'[v] = iv[v]
                   \/ iv'[v].pc \in {"idle", "bump"} /\ iv'[v].at \in {0, clock}
                   \/ InvalidatorStep(v)
<1>0. DOMAIN iv = Invalidator
  BY DEF TypeOK
<1>1. ASSUME NEW i \in Invalidator, NEW rs, NEW rc, BeginInvalidate(i, rs, rc) PROVE Goal
  BY <1>0, <1>1 DEF BeginInvalidate
<1>2. ASSUME NEW i \in Invalidator, InvalidatorStep(i) PROVE Goal
  <2>1. \E rec : iv' = [iv EXCEPT ![i] = rec]
    BY <1>2 DEF InvalidatorStep, InvalidateBump, InvalidateBumpFails, BreakInvalidator,
       ClearBroken, ReturnInvalidate
  <2> QED
    BY <1>0, <1>2, <2>1
<1>3. CASE Restart
  BY <1>3, Zenon DEF Restart, StopHandlers, IdleInvalidator
<1>4. ASSUME NEW r \in Reader, ReaderStep(r) PROVE iv' = iv
  BY <1>4, Zenon
  DEF ReaderStep, Gate, ServeCache, CheckLease, ReadCache, ReloadBroken,
      RecheckGeneration, WriteHit, WaitForFlight, PollFlight, FlightTimeout,
      TryBeginFlight, Answer, AnswerNotStored, RevokeRejected, CopyBody,
      RecheckBeforeSet, SetEntry, SetEntryFails, Grant, Track
<1>5. ASSUME NEW w \in Writer, WriterStep(w) PROVE iv' = iv
  BY <1>5 DEF WriterStep, AnswerWrite, WriteFails, RevokeWriter, BumpStateGeneration,
     BumpStateGenerationFails, BreakWriter, AckWrite
<1>6. ASSUME NEW x \in Warmer, WarmerStep(x) PROVE iv' = iv
  BY <1>6 DEF WarmerStep, WarmKey, WarmAnswer, WarmRejected, WarmRecheck, WarmPermit,
     WarmSet, WarmDelete, WarmAbandon
<1>7. CASE Environment /\ ~Restart
  BY <1>7 DEF Environment, JobDropped, EntryExpires, LeaseExpires, ChangeAccess,
     OriginChanges
<1>8. CASE Arrival
  BY <1>1, <1>8, Zenon DEF Arrival, Observe, ObserveBypass, ObserveInvalid, BeginWrite, PickJob
<1>9. CASE UNCHANGED vars
  BY <1>9, Zenon DEF vars
<1> QED
  BY <1>2, <1>3, <1>4, <1>5, <1>6, <1>7, <1>8, <1>9, Zenon DEF Next

LEMMA ClockStep ==
    ASSUME TypeOK, [Next]_vars
    PROVE  clock \in Nat /\ clock' \in Nat /\ clock <= clock'
<1>0. clock \in Nat
  BY ClockAssumption DEF TypeOK
<1>1. ASSUME NEW w \in Writer, WriterStep(w) PROVE clock' \in {clock, clock + 1}
  BY <1>1 DEF WriterStep, AnswerWrite, WriteFails, RevokeWriter, BumpStateGeneration,
     BumpStateGenerationFails, BreakWriter, AckWrite, pmsVars
<1>2. ASSUME NEW r \in Reader, ReaderStep(r) PROVE clock' = clock
  BY <1>2, Zenon
  DEF ReaderStep, Gate, ServeCache, CheckLease, ReadCache, ReloadBroken,
      RecheckGeneration, WriteHit, WaitForFlight, PollFlight, FlightTimeout,
      TryBeginFlight, Answer, AnswerNotStored, RevokeRejected, CopyBody,
      RecheckBeforeSet, SetEntry, SetEntryFails, Grant, Track, pmsVars
<1>3. ASSUME NEW i \in Invalidator, InvalidatorStep(i) PROVE clock' = clock
  BY <1>3 DEF InvalidatorStep, InvalidateBump, InvalidateBumpFails, BreakInvalidator,
     ClearBroken, ReturnInvalidate, pmsVars
<1>4. ASSUME NEW x \in Warmer, WarmerStep(x) PROVE clock' = clock
  BY <1>4 DEF WarmerStep, WarmKey, WarmAnswer, WarmRejected, WarmRecheck, WarmPermit,
     WarmSet, WarmDelete, WarmAbandon, pmsVars
<1>5. CASE Environment
  BY <1>0, <1>5 DEF Environment, JobDropped, EntryExpires, LeaseExpires, ChangeAccess,
     OriginChanges, Restart, pmsVars
<1>6. CASE Arrival
  <2>1. clock' = clock
    BY <1>6, Zenon DEF Arrival, Observe, ObserveBypass, ObserveInvalid, BeginWrite,
       BeginInvalidate, PickJob, pmsVars
  <2> QED
    BY <1>0, <2>1
<1>7. CASE UNCHANGED vars
  BY <1>0, <1>7 DEF vars
<1> QED
  BY <1>0, <1>1, <1>2, <1>3, <1>4, <1>5, <1>6, <1>7 DEF Next

-----------------------------------------------------------------------------
(* The inductive invariant.                                                 *)

LEMMA ClockInvStep ==
    ASSUME TypeOK, ClockInv, [Next]_vars
    PROVE  ClockInv'
<1>0. clock \in Nat /\ clock' \in Nat /\ clock <= clock'
  BY ClockStep
<1>t. TypeOK'
  BY TypeStep
<1>1. ASSUME NEW w \in Writer PROVE wr'[w].at <= clock'
  <2>0. wr[w].at \in Nat /\ wr[w].at <= clock /\ wr'[w].at \in Nat
    BY <1>t, Zenon DEF TypeOK, WriterOK, ClockInv
  <2>1. CASE WriterStep(w)
    <3>1. /\ DOMAIN wr = Writer
          /\ wr[w] \in [pc : WriterPC, caller : Caller \cup {None},
                        scope : Scope \cup {None}, at : Nat]
      BY Zenon DEF TypeOK, WriterOK
    <3>2. CASE AnswerWrite(w)
      BY <1>0, <3>1, <3>2 DEF AnswerWrite
    <3>3. CASE wr' = [wr EXCEPT ![w] = IdleWriter]
      <4>1. wr'[w] = IdleWriter
        BY <3>1, <3>3
      <4> QED
        BY <1>0, <4>1, IdleFields
    <3>4. CASE \E pc : wr' = [wr EXCEPT ![w].pc = pc]
      BY <1>0, <2>0, <3>1, <3>4
    <3> QED
      BY <2>1, <3>2, <3>3, <3>4 DEF WriterStep, WriteFails, RevokeWriter,
         BumpStateGeneration, BumpStateGenerationFails, BreakWriter, AckWrite
  <2>2. CASE ~WriterStep(w)
    BY <1>0, <2>0, <2>2, WriterRecordStep
  <2> QED
    BY <2>1, <2>2
<1>2. ASSUME NEW i \in Invalidator PROVE iv'[i].at <= clock'
  <2>0. iv[i].at \in Nat /\ iv[i].at <= clock
    BY DEF TypeOK, ClockInv
  <2>1. CASE InvalidatorStep(i)
    <3>1. /\ DOMAIN iv = Invalidator
          /\ iv[i] \in [pc : InvalidatorPC, rs : Scope \cup {Blank},
                        rc : Class \cup {Blank}, at : Nat]
      BY DEF TypeOK
    <3>2. CASE iv' = [iv EXCEPT ![i] = IdleInvalidator]
      <4>1. iv'[i] = IdleInvalidator
        BY <3>1, <3>2
      <4> QED
        BY <1>0, <4>1, IdleFields
    <3>3. CASE \E pc : iv' = [iv EXCEPT ![i].pc = pc]
      BY <1>0, <2>0, <3>1, <3>3
    <3> QED
      BY <2>1, <3>2, <3>3 DEF InvalidatorStep, InvalidateBump, InvalidateBumpFails,
         BreakInvalidator, ClearBroken, ReturnInvalidate
  <2>2. CASE ~InvalidatorStep(i)
    BY <1>0, <2>0, <2>2, InvalidatorRecordStep
  <2> QED
    BY <2>1, <2>2
<1>3. ASSUME NEW s \in Scope, NEW c \in Class PROVE floor'[s][c] <= clock'
  <2>0. floor[s][c] \in Nat /\ floor[s][c] <= clock
    BY DEF TypeOK, ClockInv
  <2>1. ASSUME NEW w \in Writer, AckWrite(w) PROVE floor'[s][c] <= clock
    <3>1. wr[w].at <= clock
      BY DEF ClockInv
    <3> QED
      BY <2>0, <2>1, <3>1, Zenon DEF AckWrite, Told
  <2>2. ASSUME NEW i \in Invalidator, ReturnInvalidate(i) PROVE floor'[s][c] <= clock
    <3>1. iv[i].at <= clock
      BY DEF ClockInv
    <3> QED
      BY <2>0, <2>2, <3>1, Zenon DEF ReturnInvalidate, Told
  <2>3. Restart \/ (\E i \in Invalidator : InvalidateAll(i)) => floor' = floor
    BY DEF Restart, InvalidateAll, InvalidateBump
  <2>4. floor'[s][c] \in Nat
    BY <1>t DEF TypeOK
  <2>5. floor'[s][c] <= clock
    BY <2>0, <2>1, <2>2, <2>3, HistoryStep, Zenon
  <2> QED
    BY <1>0, <2>4, <2>5
<1>4. ASSUME NEW r \in Reader PROVE rd'[r].need <= clock'
  <2>0. /\ rd[r].need \in Nat /\ rd[r].need <= clock
        /\ rd[r] \in [pc : ReaderPC, caller : Caller \cup {None},
                  scope : Scope \cup {None}, key : Key \cup {None},
                  next : {"flight", "begin", "fetch"}, hold : BOOLEAN,
                  at : Nat, need : Nat, closed : BOOLEAN]
    BY Zenon DEF TypeOK, ReaderOK, ClockInv
  <2>1. \A rec : ToReader(r, rec) => rd'[r] = rec
    BY DEF TypeOK, ToReader
  <2>2. CASE ReaderStep(r)
    <3>1. Finish(r) \/ Miss(r) => rd'[r].need = 0
      <4>1. ASSUME Finish(r) PROVE rd'[r].need = 0
        <5>1. rd'[r] = IdleReader
          BY <2>1, <4>1 DEF Finish
        <5> QED
          BY <5>1, IdleFields
      <4>2. ASSUME Miss(r) PROVE rd'[r].need = 0
        BY <2>0, <2>1, <4>2, Zenon DEF Miss
      <4> QED
        BY <4>1, <4>2
    <3>2. CASE ServeCache(r)
      <4>1. rd[r].scope \in Scope /\ ClassOf[rd[r].key.res] \in Class
        BY <3>2, ResourceAssumption DEF ServeCache, TypeOK, ReaderOK, KeyedPC, ReaderPC, Key
      <4>2. /\ floor[rd[r].scope][ClassOf[rd[r].key.res]] \in Nat
            /\ floor[rd[r].scope][ClassOf[rd[r].key.res]] <= clock
        BY <4>1, Zenon DEF ClockInv, TypeOK
      <4>3. rd'[r].need \in {0, floor[rd[r].scope][ClassOf[rd[r].key.res]]}
        BY <2>0, <2>1, <3>1, <3>2, Zenon DEF ServeCache
      <4>4. PICK n \in {0, floor[rd[r].scope][ClassOf[rd[r].key.res]]} :
               rd'[r].need = n
        BY <4>3, Zenon
      <4>5. n \in Nat /\ n <= clock
        <5>1. CASE n = 0
          BY <1>0, <5>1
        <5>2. CASE n = floor[rd[r].scope][ClassOf[rd[r].key.res]]
          BY <4>2, <5>2, Zenon
        <5> QED
          BY <4>4, <5>1, <5>2
      <4>6. n <= clock'
        BY <1>0, <4>5
      <4> QED
        BY <4>4, <4>6
    <3>3. CASE rd'[r].need = rd[r].need \/ rd'[r].need = 0
      BY <1>0, <2>0, <3>3
    <3>4. CASE \/ CheckLease(r) \/ ReadCache(r) \/ ReloadBroken(r) \/ RecheckGeneration(r)
      <4>1. rd'[r].need = rd[r].need \/ rd'[r].need = 0
        BY <2>0, <2>1, <3>1, <3>4, Zenon DEF CheckLease, ReadCache, ReloadBroken, RecheckGeneration
      <4> QED
        BY <3>3, <4>1
    <3>5. CASE \/ Gate(r) \/ WaitForFlight(r) \/ PollFlight(r) \/ FlightTimeout(r)
               \/ TryBeginFlight(r) \/ Answer(r)
      <4>1. CASE Gate(r)
        BY <2>0, <2>1, <3>3, <4>1, Zenon DEF Gate
      <4>2. CASE \/ WaitForFlight(r) \/ PollFlight(r) \/ FlightTimeout(r)
                 \/ TryBeginFlight(r) \/ Answer(r)
        BY <2>0, <2>1, <3>3, <4>2, Zenon DEF WaitForFlight, PollFlight, FlightTimeout,
           TryBeginFlight, Answer
      <4> QED
        BY <3>5, <4>1, <4>2
    <3>6. CASE \/ WriteHit(r) \/ AnswerNotStored(r) \/ RevokeRejected(r) \/ CopyBody(r)
               \/ RecheckBeforeSet(r)
      BY <2>0, <2>1, <3>1, <3>3, <3>6 DEF WriteHit, AnswerNotStored, RevokeRejected,
         CopyBody, RecheckBeforeSet
    <3>7. CASE SetEntry(r) \/ SetEntryFails(r) \/ Grant(r) \/ Track(r)
      BY <2>0, <2>1, <3>1, <3>3, <3>7, Zenon DEF SetEntry, SetEntryFails, Grant, Track
    <3> QED
      BY <2>2, <3>2, <3>4, <3>5, <3>6, <3>7, Zenon DEF ReaderStep
  <2>3. CASE ~ReaderStep(r)
    <3>1. rd'[r].need \in {rd[r].need, 0}
      BY <2>3, ReaderRecordStep, IdleFields
    <3> QED
      BY <1>0, <2>0, <3>1
  <2> QED
    BY <2>2, <2>3
<1> QED
  BY <1>1, <1>2, <1>3, <1>4 DEF ClockInv

\* An invalidation of everything makes everything fresh.
LEMMA AllFresh ==
    ASSUME TypeOK, KeysBehind, [Next]_vars, NEW i \in Invalidator, InvalidateAll(i),
           NEW n \in Nat, n <= clock
    PROVE  \A rs, rc : CoveredFresh(rs, rc, n)'
<1>1. Bump(Blank, Blank)
  BY DEF InvalidateAll, InvalidateBump
<1>2. CoveredFresh(Blank, Blank, n)'
  BY <1>1, BumpFresh
<1> QED
  BY <1>2 DEF CoveredFresh, Covers

\* After a restart nothing is vouched for and nothing is being fetched.
LEMMA RestartFresh ==
    ASSUME Restart, NEW s \in Scope, NEW res \in Resource, NEW n
    PROVE  Fresh(KeyNow(res, s), n)'
<1>1. /\ grants' = {}
      /\ \A r \in Reader : rd'[r].pc = "idle"
      /\ \A x \in Warmer : wm'[x].pc = "idle"
  BY DEF Restart, StopHandlers, IdleReader, IdleWarmer
<1> QED
  BY <1>1 DEF Fresh, Filling, Vouched

\* What Told promises is kept if it was already so.
LEMMA ToldFresh ==
    ASSUME TypeOK, CacheInv, [Next]_vars, Quiet,
           NEW rs, NEW rc, NEW n \in Nat, n <= clock,
           CoveredFresh(rs, rc, n), Told(rs, rc, n)
    PROVE  Quiet'
<1> SUFFICES ASSUME NEW s \in Scope, NEW res \in Resource,
                    NEW m, m = floor'[s][ClassOf[res]]
             PROVE  Fresh(KeyNow(res, s), m)'
  BY Zenon DEF Quiet, Fresh, Filling, Stored, Vouched, KeyNow
<1>1. ClassOf[res] \in Class
  BY ResourceAssumption
<1>2. floor[s][ClassOf[res]] \in Nat /\ floor[s][ClassOf[res]] <= clock
  BY <1>1, Zenon DEF CacheInv, ClockInv, TypeOK
<1>3. m = IF Covers(rs, rc, s, ClassOf[res]) /\ n > floor[s][ClassOf[res]]
          THEN n ELSE floor[s][ClassOf[res]]
  BY <1>1, Zenon DEF Told
<1>4. m \in Nat /\ m <= clock /\ Fresh(KeyNow(res, s), m)
  BY <1>2, <1>3, Zenon DEF Quiet, CoveredFresh
<1> QED
  BY <1>4, NowFresh, Zenon DEF CacheInv

LEMMA QuietStep ==
    ASSUME TypeOK, CacheInv, [Next]_vars, ~unrecovered'
    PROVE  Quiet'
<1>0. ASSUME NEW s \in Scope, NEW res \in Resource
      PROVE  floor[s][ClassOf[res]] \in Nat /\ floor[s][ClassOf[res]] <= clock
  BY ResourceAssumption, Zenon DEF CacheInv, ClockInv, TypeOK
<1>1. CASE Restart
  <2> SUFFICES ASSUME NEW s \in Scope, NEW res \in Resource,
                      NEW m, m = floor'[s][ClassOf[res]]
               PROVE  Fresh(KeyNow(res, s), m)'
    BY Zenon DEF Quiet, Fresh, Filling, Stored, Vouched, KeyNow
  <2> QED
    BY <1>1, RestartFresh, Zenon
<1>2. ASSUME NEW i \in Invalidator, InvalidateAll(i) PROVE Quiet'
  <2> SUFFICES ASSUME NEW s \in Scope, NEW res \in Resource,
                      NEW m, m = floor'[s][ClassOf[res]]
               PROVE  Fresh(KeyNow(res, s), m)'
    BY Zenon DEF Quiet, Fresh, Filling, Stored, Vouched, KeyNow
  <2>1. m \in Nat /\ m <= clock
    BY <1>0, <1>2 DEF InvalidateAll, InvalidateBump
  <2>2. CoveredFresh(Blank, Blank, m)'
    BY <1>2, <2>1, AllFresh DEF CacheInv
  <2> QED
    BY <2>2 DEF CoveredFresh, Covers
<1>3. CASE /\ unrecovered => unrecovered'
           /\ \/ floor' = floor
              \/ \E w \in Writer : AckWrite(w)
              \/ \E i \in Invalidator : ReturnInvalidate(i)
  <2>1. Quiet
    BY <1>3 DEF CacheInv
  <2>2. CASE floor' = floor
    <3> SUFFICES ASSUME NEW s \in Scope, NEW res \in Resource,
                        NEW m, m = floor'[s][ClassOf[res]]
                 PROVE  Fresh(KeyNow(res, s), m)'
      BY Zenon DEF Quiet, Fresh, Filling, Stored, Vouched, KeyNow
    <3>1. m \in Nat /\ m <= clock /\ Fresh(KeyNow(res, s), m)
      BY <1>0, <2>1, <2>2 DEF Quiet
    <3> QED
      BY <3>1, NowFresh, Zenon DEF CacheInv
  <2>3. ASSUME NEW w \in Writer, AckWrite(w) PROVE Quiet'
    <3>1. ~unrecovered
      BY <1>3
    <3>2. wr[w].pc = "ack"
      BY <2>3 DEF AckWrite
    <3>3. PICK sc, n : sc = wr[w].scope /\ n = wr[w].at
      OBVIOUS
    <3>4. CoveredFresh(sc, Blank, n) /\ n \in Nat /\ n <= clock
      BY <3>1, <3>2, <3>3, Zenon DEF CacheInv, WriterInv, ClockInv, TypeOK, WriterOK
    <3>5. Told(sc, Blank, n)
      BY <2>3, <3>3 DEF AckWrite
    <3> QED
      BY <2>1, <3>4, <3>5, ToldFresh
  <2>4. ASSUME NEW i \in Invalidator, ReturnInvalidate(i) PROVE Quiet'
    <3>1. ~unrecovered
      BY <1>3
    <3>2. iv[i].pc = "return"
      BY <2>4 DEF ReturnInvalidate
    <3>3. PICK rs, rc, n : rs = iv[i].rs /\ rc = iv[i].rc /\ n = iv[i].at
      OBVIOUS
    <3>4. CoveredFresh(rs, rc, n) /\ n \in Nat /\ n <= clock
      BY <3>1, <3>2, <3>3, Zenon DEF CacheInv, InvalidatorInv, ClockInv, TypeOK
    <3>5. Told(rs, rc, n)
      BY <2>4, <3>3 DEF ReturnInvalidate
    <3> QED
      BY <2>1, <3>4, <3>5, ToldFresh
  <2> QED
    BY <1>3, <2>2, <2>3, <2>4
<1> QED
  BY <1>1, <1>2, <1>3, HistoryStep

LEMMA WriterInvStep ==
    ASSUME TypeOK, CacheInv, [Next]_vars, NEW w \in Writer
    PROVE  WriterInv(w)'
<1> SUFFICES ASSUME NEW sc, NEW n, sc = wr'[w].scope, n = wr'[w].at
             PROVE  /\ wr'[w].pc = "break" => w \in failing' \/ CoveredFresh(sc, Blank, n)'
                    /\ wr'[w].pc = "ack" => unrecovered' \/ CoveredFresh(sc, Blank, n)'
  BY Zenon DEF WriterInv, CoveredFresh, Fresh, Filling, Stored, Vouched, KeyNow, Covers
<1>0. /\ DOMAIN wr = Writer
      /\ wr[w] \in [pc : WriterPC, caller : Caller \cup {None},
                    scope : Scope \cup {None}, at : Nat]
      /\ wr[w].pc # "idle" => wr[w].scope \in Scope
      /\ wr[w].at <= clock
      /\ KeysBehind
  BY Zenon DEF TypeOK, WriterOK, CacheInv, ClockInv
<1>1. CASE Restart
  BY <1>1 DEF Restart, StopHandlers, IdleWriter
<1>2. ASSUME NEW i \in Invalidator, InvalidateAll(i) PROVE CoveredFresh(sc, Blank, n)'
  <2>1. n \in Nat /\ n <= clock
    BY <1>0, <1>2 DEF InvalidateAll, InvalidateBump
  <2> QED
    BY <1>0, <1>2, <2>1, AllFresh, Zenon
<1>3. CASE /\ unrecovered => unrecovered'
           /\ \A h \in failing : \/ h \in failing'
                                 \/ h \in Writer /\ BreakWriter(h)
                                 \/ h \in Invalidator /\ BreakInvalidator(h)
  <2>1. CASE wr'[w] = wr[w]
    <3>1. CoveredFresh(sc, Blank, n) => CoveredFresh(sc, Blank, n)'
      BY <1>0, <2>1, CoveredFreshStable, Zenon
    <3>2. wr[w].pc = "break" => w \in failing \/ CoveredFresh(sc, Blank, n)
      BY <2>1 DEF CacheInv, WriterInv
    <3>3. wr[w].pc = "ack" => unrecovered \/ CoveredFresh(sc, Blank, n)
      BY <2>1 DEF CacheInv, WriterInv
    <3>4. BreakWriter(w) => wr[w].pc = "break" /\ wr'[w].pc = "ack"
      BY <1>0 DEF BreakWriter
    <3>5. w \notin Invalidator
      BY HandlerAssumption
    <3>6. w \in failing => w \in failing' \/ wr[w].pc # "break"
      BY <1>3, <2>1, <3>4, <3>5
    <3> QED
      BY <1>3, <2>1, <3>1, <3>2, <3>3, <3>6, Zenon
  <2>2. CASE wr'[w].pc \in {"idle", "fetch"}
    BY <2>2
  <2>3. CASE BumpStateGeneration(w)
    <3>1. sc = wr[w].scope /\ n = wr[w].at /\ sc \in Scope
      BY <1>0, <2>3 DEF BumpStateGeneration
    <3>2. Bump(sc, Blank)
      BY <2>3, <3>1 DEF BumpStateGeneration, BumpScope
    <3>3. CoveredFresh(sc, Blank, n)'
      BY <1>0, <3>1, <3>2, BumpFresh
    <3> QED
      BY <3>3
  <2>4. CASE BumpStateGenerationFails(w)
    BY <1>0, <2>4 DEF BumpStateGenerationFails
  <2>5. CASE BreakWriter(w)
    <3>1. /\ sc = wr[w].scope /\ n = wr[w].at /\ wr[w].pc = "break" /\ wr'[w].pc = "ack"
          /\ w \in failing => unrecovered'
      BY <1>0, <2>5, Zenon DEF BreakWriter, SetBroken
    <3>2. w \in failing \/ CoveredFresh(sc, Blank, n)
      BY <3>1 DEF CacheInv, WriterInv
    <3>3. CoveredFresh(sc, Blank, n) => CoveredFresh(sc, Blank, n)'
      BY <1>0, <3>1, CoveredFreshStable
    <3> QED
      BY <3>1, <3>2, <3>3
  <2>6. CASE \/ AnswerWrite(w) \/ WriteFails(w) \/ RevokeWriter(w) \/ AckWrite(w)
    <3>1. wr'[w].pc \in {"idle", "bump", "revoke"}
      BY <1>0, <2>6 DEF AnswerWrite, WriteFails, RevokeWriter, AckWrite, IdleWriter
    <3> QED
      BY <3>1
  <2> QED
    BY <2>1, <2>2, <2>3, <2>4, <2>5, <2>6, WriterRecordStep, Zenon DEF WriterStep
<1> QED
  BY <1>1, <1>2, <1>3, HistoryStep, Zenon

LEMMA InvalidatorInvStep ==
    ASSUME TypeOK, CacheInv, [Next]_vars, NEW i \in Invalidator
    PROVE  InvalidatorInv(i)'
<1> SUFFICES ASSUME NEW rs, NEW rc, NEW n,
                    rs = iv'[i].rs, rc = iv'[i].rc, n = iv'[i].at
             PROVE  /\ iv'[i].pc = "break" => i \in failing' \/ CoveredFresh(rs, rc, n)'
                    /\ iv'[i].pc \in {"clear", "return"} =>
                          unrecovered' \/ CoveredFresh(rs, rc, n)'
  <2>1. ASSUME NEW rs, NEW rc, NEW n,
               rs = iv'[i].rs, rc = iv'[i].rc, n = iv'[i].at,
               CoveredFresh(rs, rc, n)'
        PROVE  CoveredFresh(iv[i].rs, iv[i].rc, iv[i].at)'
    <3> SUFFICES ASSUME NEW s \in Scope, NEW res \in Resource,
                        Covers(rs, rc, s, ClassOf[res])
                 PROVE  Fresh(KeyNow(res, s), iv[i].at)'
      BY <2>1, Zenon DEF CoveredFresh, Covers
    <3>1. Fresh(KeyNow(res, s), n)'
      BY <2>1 DEF CoveredFresh, Covers
    <3> QED
      BY <2>1, <3>1, Zenon DEF Fresh, Filling, Stored
  <2>2. PICK rs, rc, n : rs = iv'[i].rs /\ rc = iv'[i].rc /\ n = iv'[i].at
    OBVIOUS
  <2> QED
    BY <2>1, <2>2, Zenon DEF InvalidatorInv
<1>0. /\ DOMAIN iv = Invalidator
      /\ iv[i] \in [pc : InvalidatorPC, rs : Scope \cup {Blank},
                    rc : Class \cup {Blank}, at : Nat]
      /\ iv[i].at <= clock
      /\ KeysBehind
  BY Zenon DEF TypeOK, CacheInv, ClockInv
<1>1. CASE Restart
  BY <1>1 DEF Restart, StopHandlers, IdleInvalidator
<1>2. ASSUME NEW j \in Invalidator, InvalidateAll(j) PROVE CoveredFresh(rs, rc, n)'
  <2>1. n \in Nat /\ n <= clock
    <3>1. PICK pc : iv' = [iv EXCEPT ![j].pc = pc]
      BY <1>2, Zenon DEF InvalidateAll, InvalidateBump
    <3>2. iv'[i].at = iv[i].at
      BY <1>0, <3>1
    <3> QED
      BY <1>0, <3>2
  <2> QED
    BY <1>0, <1>2, <2>1, AllFresh
<1>3. CASE /\ unrecovered => unrecovered'
           /\ \A h \in failing : \/ h \in failing'
                                 \/ h \in Writer /\ BreakWriter(h)
                                 \/ h \in Invalidator /\ BreakInvalidator(h)
  <2>1. CASE iv'[i] = iv[i]
    <3>1. CoveredFresh(rs, rc, n) => CoveredFresh(rs, rc, n)'
      BY <1>0, <2>1, CoveredFreshStable, Zenon
    <3>2. iv[i].pc = "break" => i \in failing \/ CoveredFresh(rs, rc, n)
      BY <2>1 DEF CacheInv, InvalidatorInv
    <3>3. iv[i].pc \in {"clear", "return"} => unrecovered \/ CoveredFresh(rs, rc, n)
      BY <2>1 DEF CacheInv, InvalidatorInv
    <3>4. BreakInvalidator(i) => iv[i].pc = "break" /\ iv'[i].pc = "return"
      BY <1>0 DEF BreakInvalidator
    <3>5. i \notin Writer
      BY HandlerAssumption
    <3>6. i \in failing => i \in failing' \/ iv[i].pc # "break"
      BY <1>3, <2>1, <3>4, <3>5
    <3> QED
      BY <1>3, <2>1, <3>1, <3>2, <3>3, <3>6, Zenon
  <2>2. CASE iv'[i].pc \in {"idle", "bump"}
    BY <2>2
  <2>3. CASE InvalidateBump(i)
    <3>1. rs = iv[i].rs /\ rc = iv[i].rc /\ n = iv[i].at /\ iv'[i].pc # "break"
      BY <1>0, <2>3 DEF InvalidateBump
    <3>2. Bump(rs, rc)
      BY <2>3, <3>1 DEF InvalidateBump
    <3>3. CoveredFresh(rs, rc, n)'
      BY <1>0, <3>1, <3>2, BumpFresh
    <3> QED
      BY <3>1, <3>3
  <2>4. CASE InvalidateBumpFails(i)
    BY <1>0, <2>4 DEF InvalidateBumpFails
  <2>5. CASE BreakInvalidator(i)
    <3>1. /\ rs = iv[i].rs /\ rc = iv[i].rc /\ n = iv[i].at
          /\ iv[i].pc = "break" /\ iv'[i].pc = "return"
          /\ i \in failing => unrecovered'
      BY <1>0, <2>5, Zenon DEF BreakInvalidator, SetBroken
    <3>2. i \in failing \/ CoveredFresh(rs, rc, n)
      BY <3>1 DEF CacheInv, InvalidatorInv
    <3>3. CoveredFresh(rs, rc, n) => CoveredFresh(rs, rc, n)'
      BY <1>0, <3>1, CoveredFreshStable
    <3> QED
      BY <3>1, <3>2, <3>3
  <2>6. CASE ClearBroken(i)
    <3>1. /\ rs = iv[i].rs /\ rc = iv[i].rc /\ n = iv[i].at
          /\ iv[i].pc = "clear" /\ iv'[i].pc = "return"
      BY <1>0, <2>6 DEF ClearBroken
    <3>2. unrecovered \/ CoveredFresh(rs, rc, n)
      BY <3>1, Zenon DEF CacheInv, InvalidatorInv
    <3>3. CoveredFresh(rs, rc, n) => CoveredFresh(rs, rc, n)'
      BY <1>0, <3>1, CoveredFreshStable, Zenon
    <3> QED
      BY <1>3, <3>1, <3>2, <3>3, Zenon
  <2>7. CASE ReturnInvalidate(i)
    BY <1>0, <2>7, Zenon DEF ReturnInvalidate, IdleInvalidator
  <2> QED
    BY <2>1, <2>2, <2>3, <2>4, <2>5, <2>6, <2>7, InvalidatorRecordStep, Zenon DEF InvalidatorStep
<1> QED
  BY <1>1, <1>2, <1>3, HistoryStep, Zenon

LEMMA ReaderInvStep ==
    ASSUME TypeOK, CacheInv, [Next]_vars, NEW r \in Reader
    PROVE  ReaderInv(r)'
<1> SUFFICES ASSUME NEW k, NEW n, NEW at, k = rd'[r].key, n = rd'[r].need,
                    at = rd'[r].at, rd'[r].closed
             PROVE  /\ rd'[r].pc = "lease" /\ Current(k)' => Fresh(k, n)'
                    /\ rd'[r].pc = "get" /\ Current(k)' =>
                          Filling(k, n)' /\ Stored(k, n)'
                    /\ rd'[r].pc \in {"reload", "recheck"} /\ Current(k)' => at >= n
                    /\ rd'[r].pc = "hit" => at >= n
  BY Zenon DEF ReaderInv, Current, KeyNow, Effective, Global, Fresh, Filling, Stored, Vouched
<1>0. /\ rd[r] \in [pc : ReaderPC, caller : Caller \cup {None},
                  scope : Scope \cup {None}, key : Key \cup {None},
                  next : {"flight", "begin", "fetch"}, hold : BOOLEAN,
                  at : Nat, need : Nat, closed : BOOLEAN]
      /\ rd[r].pc \in KeyedPC => rd[r].key \in Key /\ rd[r].key.scope = rd[r].scope
      /\ rd[r].key \in Key => Behind(rd[r].key)
      /\ rd[r].need <= clock
      /\ ReaderInv(r)
  BY NoneIsNoKey, Zenon DEF TypeOK, ReaderOK, CacheInv, ClockInv, KeysBehind
<1>1. \A rec : ToReader(r, rec) => rd'[r] = rec
  BY DEF TypeOK, ToReader
<1>2. rd'[r].pc \notin {"lease", "get", "reload", "recheck", "hit"} =>
         /\ rd'[r].pc = "lease" /\ Current(k)' => Fresh(k, n)'
         /\ rd'[r].pc = "get" /\ Current(k)' => Filling(k, n)' /\ Stored(k, n)'
         /\ rd'[r].pc \in {"reload", "recheck"} /\ Current(k)' => at >= n
         /\ rd'[r].pc = "hit" => at >= n
  OBVIOUS
<1>3. ASSUME k = rd[r].key, rd[r].pc \in KeyedPC, Current(k)'
      PROVE  k \in Key /\ Current(k)
  BY <1>0, <1>3, CurrentStep, Zenon
<1>4. Finish(r) \/ Miss(r) =>
         rd'[r].pc \notin {"lease", "get", "reload", "recheck", "hit"}
  <2>1. ASSUME Finish(r) PROVE rd'[r].pc = "idle"
    <3>1. rd'[r] = IdleReader
      BY <1>1, <2>1 DEF Finish
    <3> QED
      BY <3>1, IdleFields, Zenon
  <2>2. ASSUME Miss(r) PROVE rd'[r].pc = rd[r].next
    BY <1>0, <1>1, <2>2, Zenon DEF Miss
  <2> QED
    BY <1>0, <2>1, <2>2, Zenon
<1>5. CASE rd'[r] = rd[r]
  <2>1. CASE rd[r].pc = "lease"
    <3>1. ASSUME Current(k)' PROVE Fresh(k, n)'
      <4>1. k \in Key /\ Current(k)
        BY <1>3, <1>5, <2>1, <3>1, Zenon DEF KeyedPC, ReaderPC
      <4>2. Fresh(k, n)
        BY <1>0, <1>5, <2>1, <4>1, Zenon DEF ReaderInv
      <4> QED
        BY <1>0, <1>5, <4>1, <4>2, FreshStable, Zenon
    <3> QED
      BY <1>5, <2>1, <3>1
  <2>2. CASE rd[r].pc = "get"
    <3>1. ASSUME Current(k)' PROVE Filling(k, n)' /\ Stored(k, n)'
      <4>1. k \in Key /\ Current(k)
        BY <1>3, <1>5, <2>2, <3>1 DEF KeyedPC, ReaderPC
      <4>2. Filling(k, n) /\ Stored(k, n)
        BY <1>0, <1>5, <2>2, <4>1, Zenon DEF ReaderInv
      <4> QED
        BY <1>0, <1>5, <4>1, <4>2, FillingStable, StoredStable, Zenon
    <3> QED
      BY <1>5, <2>2, <3>1, Zenon
  <2>3. CASE rd[r].pc \in {"reload", "recheck"}
    <3>1. ASSUME Current(k)' PROVE at >= n
      <4>1. k \in Key /\ Current(k)
        BY <1>3, <1>5, <2>3, <3>1 DEF KeyedPC, ReaderPC
      <4> QED
        BY <1>0, <1>5, <2>3, <4>1, Zenon DEF ReaderInv
    <3> QED
      BY <1>5, <2>3, <3>1, Zenon
  <2>4. CASE rd[r].pc = "hit"
    BY <1>0, <1>5, <2>4, Zenon DEF ReaderInv
  <2> QED
    BY <1>2, <1>5, <2>1, <2>2, <2>3, <2>4, Zenon
<1>6. CASE ServeCache(r)
  <2>1. CASE Miss(r)
    BY <1>2, <1>4, <2>1, Zenon
  <2>2. CASE ~Miss(r)
    <3>1. /\ rd'[r].pc = "lease" /\ k = rd[r].key /\ rd[r].pc = "broken"
          /\ n = floor[rd[r].scope][ClassOf[rd[r].key.res]] /\ ~unrecovered
      BY <1>0, <1>1, <1>6, <2>2, Zenon DEF ServeCache, TypeOK
    <3>2. ASSUME Current(k)' PROVE Fresh(k, n)'
      <4>1. k \in Key /\ Current(k) /\ k.scope = rd[r].scope
        BY <1>0, <1>3, <3>1, <3>2, Zenon DEF KeyedPC, ReaderPC
      <4>2. k.scope \in Scope /\ k.res \in Resource /\ ClassOf[k.res] \in Class
        BY <4>1, ResourceAssumption DEF Key
      <4>3. n = floor[k.scope][ClassOf[k.res]]
        BY <3>1, <4>1
      <4>4. n \in Nat /\ n <= clock
        <5>1. floor[k.scope][ClassOf[k.res]] \in Nat
          BY <4>2, Zenon DEF TypeOK
        <5>2. floor[k.scope][ClassOf[k.res]] <= clock
          BY <4>2, Zenon DEF CacheInv, ClockInv
        <5> QED
          BY <4>3, <5>1, <5>2, Zenon
      <4>5. Fresh(KeyNow(k.res, k.scope), floor[k.scope][ClassOf[k.res]])
        BY <3>1, <4>2, Zenon DEF CacheInv, Quiet
      <4>6. Fresh(k, n)
        BY <4>1, <4>3, <4>5, Zenon DEF Current
      <4> QED
        BY <4>1, <4>4, <4>6, FreshStable
    <3> QED
      BY <3>1, <3>2, Zenon
  <2> QED
    BY <2>1, <2>2, Zenon
<1>7. CASE CheckLease(r)
  <2>1. CASE Miss(r)
    BY <1>2, <1>4, <2>1, Zenon
  <2>2. CASE ~Miss(r)
    <3>1. /\ rd'[r].pc = "get" /\ k = rd[r].key /\ rd[r].pc = "lease"
          /\ n = rd[r].need /\ rd[r].closed
          /\ \E g \in grants : g.key = k
      BY <1>0, <1>1, <1>7, <2>2 DEF CheckLease, Authorized
    <3>2. ASSUME Current(k)' PROVE Filling(k, n)' /\ Stored(k, n)'
      <4>1. k \in Key /\ Current(k)
        BY <1>3, <3>1, <3>2, Zenon DEF KeyedPC, ReaderPC
      <4>2. Fresh(k, n)
        BY <1>0, <3>1, <4>1, Zenon DEF ReaderInv
      <4>3. Filling(k, n) /\ Stored(k, n)
        BY <3>1, <4>2, Zenon DEF Fresh, Vouched
      <4> QED
        BY <1>0, <3>1, <4>1, <4>3, FillingStable, StoredStable, Zenon
    <3> QED
      BY <3>1, <3>2, Zenon
  <2> QED
    BY <2>1, <2>2, Zenon
<1>8. CASE ReadCache(r)
  <2>1. CASE Miss(r)
    BY <1>2, <1>4, <2>1, Zenon
  <2>2. CASE ~Miss(r)
    <3>1. /\ rd'[r].pc = "reload" /\ k = rd[r].key /\ rd[r].pc = "get"
          /\ n = rd[r].need /\ rd[r].closed
          /\ \E e \in cache : e.key = k /\ at = e.at
      BY <1>0, <1>1, <1>8, <2>2, Zenon DEF ReadCache
    <3>2. ASSUME Current(k)' PROVE at >= n
      <4>1. k \in Key /\ Current(k)
        BY <1>3, <3>1, <3>2, Zenon DEF KeyedPC, ReaderPC
      <4> QED
        BY <1>0, <3>1, <4>1, Zenon DEF ReaderInv, Stored
    <3> QED
      BY <3>1, <3>2, Zenon
  <2> QED
    BY <2>1, <2>2, Zenon
<1>9. CASE ReloadBroken(r)
  <2>1. CASE Miss(r)
    BY <1>2, <1>4, <2>1, Zenon
  <2>2. CASE ~Miss(r)
    <3>1. /\ rd'[r].pc = "recheck" /\ k = rd[r].key /\ rd[r].pc = "reload"
          /\ n = rd[r].need /\ at = rd[r].at /\ rd[r].closed
      BY <1>0, <1>1, <1>9, <2>2 DEF ReloadBroken
    <3>2. ASSUME Current(k)' PROVE at >= n
      <4>1. k \in Key /\ Current(k)
        BY <1>3, <3>1, <3>2, Zenon DEF KeyedPC, ReaderPC
      <4> QED
        BY <1>0, <3>1, <4>1, Zenon DEF ReaderInv
    <3> QED
      BY <3>1, <3>2, Zenon
  <2> QED
    BY <2>1, <2>2, Zenon
<1>10. CASE RecheckGeneration(r)
  <2>1. CASE Miss(r)
    BY <1>2, <1>4, <2>1, Zenon
  <2>2. CASE ~Miss(r)
    <3>1. /\ rd'[r].pc = "hit" /\ rd[r].pc = "recheck" /\ Current(rd[r].key)
          /\ n = rd[r].need /\ at = rd[r].at /\ rd[r].closed
      BY <1>0, <1>1, <1>10, <2>2 DEF RecheckGeneration
    <3> QED
      BY <1>0, <3>1, Zenon DEF ReaderInv
  <2> QED
    BY <2>1, <2>2, Zenon
<1>11. CASE \/ Gate(r) \/ WaitForFlight(r) \/ PollFlight(r) \/ FlightTimeout(r)
            \/ TryBeginFlight(r) \/ Answer(r)
  <2>1. rd'[r].pc \notin {"lease", "get", "reload", "recheck", "hit"}
    <3>1. CASE Gate(r)
      BY <1>0, <1>1, <3>1, Zenon DEF Gate
    <3>2. CASE WaitForFlight(r)
      BY <1>0, <1>1, <3>2 DEF WaitForFlight
    <3>3. CASE PollFlight(r) \/ FlightTimeout(r)
      <4>1. rd[r] \in [pc : ReaderPC, caller : Caller \cup {None},
                  scope : Scope \cup {None}, key : Key \cup {None},
                  next : {"flight", "begin", "fetch"}, hold : BOOLEAN,
                  at : Nat, need : Nat, closed : BOOLEAN]
        BY <1>0, Zenon
      <4>2. CASE rd'[r] = [rd[r] EXCEPT !.pc = "broken", !.next = "begin"]
        <5>1. rd'[r].pc = "broken"
          BY <4>1, <4>2
        <5> QED
          BY <5>1, Zenon
      <4>3. CASE rd'[r] = [rd[r] EXCEPT !.pc = "begin"]
        <5>1. rd'[r].pc = "begin"
          BY <4>1, <4>3
        <5> QED
          BY <5>1
      <4> QED
        BY <1>1, <3>3, <4>2, <4>3 DEF PollFlight, FlightTimeout
    <3>4. CASE TryBeginFlight(r)
      BY <1>0, <1>1, <3>4, Zenon DEF TryBeginFlight
    <3>5. CASE Answer(r)
      <4>1. PICK pc \in {"body", "revoke"} :
               rd'[r] = [rd[r] EXCEPT !.at = clock, !.pc = pc]
        BY <1>1, <3>5, Zenon DEF Answer
      <4> QED
        BY <1>0, <4>1
    <3> QED
      BY <1>11, <3>1, <3>2, <3>3, <3>4, <3>5, Zenon
  <2> QED
    BY <1>2, <2>1, Zenon
<1>12. CASE \/ WriteHit(r) \/ AnswerNotStored(r) \/ RevokeRejected(r) \/ CopyBody(r)
            \/ RecheckBeforeSet(r)
  <2>1. rd'[r].pc \notin {"lease", "get", "reload", "recheck", "hit"}
    BY <1>0, <1>1, <1>4, <1>12 DEF WriteHit, AnswerNotStored, RevokeRejected,
       CopyBody, RecheckBeforeSet
  <2> QED
    BY <1>2, <2>1, Zenon
<1>13. CASE SetEntry(r) \/ SetEntryFails(r) \/ Grant(r) \/ Track(r)
  <2>1. rd'[r].pc \notin {"lease", "get", "reload", "recheck", "hit"}
    <3>1. CASE SetEntry(r) \/ SetEntryFails(r)
      BY <1>0, <1>1, <1>4, <3>1 DEF SetEntry, SetEntryFails
    <3>2. CASE Grant(r)
      BY <1>0, <1>1, <3>2, Zenon DEF Grant
    <3>3. CASE Track(r)
      BY <1>4, <3>3 DEF Track
    <3> QED
      BY <1>13, <3>1, <3>2, <3>3, Zenon
  <2> QED
    BY <1>2, <2>1, Zenon
<1>14. CASE ~ReaderStep(r) /\ rd'[r] # rd[r]
  <2>1. rd'[r].pc \notin {"lease", "get", "reload", "recheck", "hit"}
    BY <1>14, ReaderRecordStep, IdleFields, Zenon
  <2> QED
    BY <1>2, <2>1
<1> QED
  BY <1>5, <1>6, <1>7, <1>8, <1>9, <1>10, <1>11, <1>12, <1>13, <1>14, Zenon DEF ReaderStep

LEMMA CacheInit == Init => CacheInv
<1> SUFFICES ASSUME Init PROVE CacheInv
  OBVIOUS
<1>1. /\ \A r \in Reader : rd[r] = IdleReader
      /\ \A w \in Writer : wr[w] = IdleWriter
      /\ \A i \in Invalidator : iv[i] = IdleInvalidator
      /\ \A x \in Warmer : wm[x] = IdleWarmer
  BY DEF Init
<1>2. KeysBehind
  BY <1>1, IdleFields DEF Init, KeysBehind
<1>3. ClockInv
  <2>1. clock = 0 /\ 0 <= clock
    BY DEF Init
  <2>2. \A s \in Scope, c \in Class : floor[s][c] = 0
    BY DEF Init
  <2>3. /\ \A r \in Reader : rd[r].need = 0
        /\ \A w \in Writer : wr[w].at = 0
        /\ \A i \in Invalidator : iv[i].at = 0
    BY <1>1, IdleFields
  <2> QED
    BY <2>1, <2>2, <2>3 DEF ClockInv
<1>4. Quiet
  BY <1>1, IdleFields, Zenon DEF Init, Quiet, Fresh, Filling, Vouched
<1>5. /\ \A w \in Writer : WriterInv(w)
      /\ \A i \in Invalidator : InvalidatorInv(i)
      /\ \A r \in Reader : ReaderInv(r)
  BY <1>1, IdleFields, Zenon DEF WriterInv, InvalidatorInv, ReaderInv
<1> QED
  BY <1>2, <1>3, <1>4, <1>5 DEF CacheInv

LEMMA CacheInvStep == TypeOK /\ CacheInv /\ [Next]_vars => CacheInv'
<1> SUFFICES ASSUME TypeOK, CacheInv, [Next]_vars PROVE CacheInv'
  OBVIOUS
<1>1. KeysBehind' /\ ClockInv'
  BY KeysBehindStep, ClockInvStep DEF CacheInv
<1>2. unrecovered' \/ Quiet'
  BY QuietStep
<1>3. \A w \in Writer : WriterInv(w)'
  BY WriterInvStep
<1>4. \A i \in Invalidator : InvalidatorInv(i)'
  BY InvalidatorInvStep
<1>5. \A r \in Reader : ReaderInv(r)'
  BY ReaderInvStep
<1> QED
  BY <1>1, <1>2, <1>3, <1>4, <1>5 DEF CacheInv

\* For any number of requests, writes, invalidations, warmers, scopes and
\* resources, while failed bumps keep serving closed, what a hit can show and
\* what clients were told stay in step.
THEOREM CacheInvariant == Spec => []CacheInv
<1>1. Spec => []TypeOK
  BY TypeCorrect
<1> QED
  BY <1>1, CacheInit, CacheInvStep, PTL DEF Spec

\* No response from the cache is older than what the clients of its scope and
\* class had been told when the lookup began, provided cacheBroken then stood
\* for every failed bump (serveCache, copyBody, bumpStateGeneration,
\* InvalidateCacheContext, the warmer and restarts in any interleaving).
THEOREM HitsHonourWritesWhileClosed == Spec => []ReadYourWritesWhileClosed
<1>1. CacheInv => ReadYourWritesWhileClosed
  BY Zenon DEF CacheInv, ReaderInv, ReadYourWritesWhileClosed
<1> QED
  BY <1>1, CacheInvariant, PTL

-----------------------------------------------------------------------------
(* Unconditional forms.                                                     *)

\* Every running lookup began while serving was fail-closed.
AllClosed == \A r \in Reader : rd[r].closed

LEMMA AllClosedStep ==
    ASSUME TypeOK, FailClosed, AllClosed, [Next]_vars
    PROVE  AllClosed'
<1> SUFFICES ASSUME NEW r \in Reader PROVE rd'[r].closed
  BY DEF AllClosed
<1>0. /\ rd[r] \in [pc : ReaderPC, caller : Caller \cup {None},
                  scope : Scope \cup {None}, key : Key \cup {None},
                  next : {"flight", "begin", "fetch"}, hold : BOOLEAN,
                  at : Nat, need : Nat, closed : BOOLEAN]
      /\ rd[r].closed
  BY Zenon DEF TypeOK, ReaderOK, AllClosed
<1>1. \A rec : ToReader(r, rec) => rd'[r] = rec
  BY DEF TypeOK, ToReader
<1>2. ASSUME Finish(r) \/ Miss(r) PROVE rd'[r].closed
  <2>1. CASE Finish(r)
    <3>1. rd'[r] = IdleReader
      BY <1>1, <2>1 DEF Finish
    <3> QED
      BY <3>1, IdleFields
  <2>2. CASE Miss(r)
    BY <1>0, <1>1, <2>2, Zenon DEF Miss
  <2> QED
    BY <1>2, <2>1, <2>2
<1>3. CASE ServeCache(r)
  <2>1. CASE broken
    BY <1>2, <1>3, <2>1 DEF ServeCache
  <2>2. CASE ~broken
    <3>1. ~unrecovered
      BY <2>2 DEF FailClosed
    <3> QED
      BY <1>0, <1>1, <1>3, <2>2, <3>1, Zenon DEF ServeCache, TypeOK
  <2> QED
    BY <2>1, <2>2
<1>4. CASE \/ CheckLease(r) \/ ReadCache(r) \/ ReloadBroken(r) \/ RecheckGeneration(r)
  BY <1>0, <1>1, <1>2, <1>4, Zenon DEF CheckLease, ReadCache, ReloadBroken, RecheckGeneration
<1>5. CASE Gate(r)
  BY <1>0, <1>1, <1>5, Zenon DEF Gate
<1>6. CASE \/ WaitForFlight(r) \/ PollFlight(r) \/ FlightTimeout(r)
           \/ TryBeginFlight(r) \/ Answer(r)
  BY <1>0, <1>1, <1>6, Zenon DEF WaitForFlight, PollFlight, FlightTimeout, TryBeginFlight, Answer
<1>7. CASE \/ WriteHit(r) \/ AnswerNotStored(r) \/ RevokeRejected(r) \/ CopyBody(r)
           \/ RecheckBeforeSet(r)
  BY <1>0, <1>1, <1>2, <1>7 DEF WriteHit, AnswerNotStored, RevokeRejected,
     CopyBody, RecheckBeforeSet
<1>8. CASE SetEntry(r) \/ SetEntryFails(r) \/ Grant(r) \/ Track(r)
  BY <1>0, <1>1, <1>2, <1>8, Zenon DEF SetEntry, SetEntryFails, Grant, Track
<1>9. CASE ~ReaderStep(r)
  BY <1>0, <1>9, ReaderRecordStep, IdleFields, Zenon
<1> QED
  BY <1>3, <1>4, <1>5, <1>6, <1>7, <1>8, <1>9 DEF ReaderStep

\* Only an invalidation of everything or a restart reopens the cache.
LEMMA BrokenStep ==
    ASSUME TypeOK, FailClosed, [Next]_vars, Invalidator = {}
    PROVE  FailClosed'
<1>1. CASE Arrival
  BY <1>1, Zenon DEF Arrival, Observe, ObserveBypass, ObserveInvalid, BeginWrite,
              BeginInvalidate, PickJob, procVars, histVars, FailClosed
<1>2. ASSUME NEW r \in Reader, ReaderStep(r)
      PROVE  broken' = broken /\ unrecovered' = unrecovered
  BY <1>2, Zenon
  DEF ReaderStep, Gate, ServeCache, CheckLease, ReadCache, ReloadBroken,
      RecheckGeneration, WriteHit, WaitForFlight, PollFlight, FlightTimeout,
      TryBeginFlight, Answer, AnswerNotStored, RevokeRejected, CopyBody,
      RecheckBeforeSet, SetEntry, SetEntryFails, Grant, Track, procVars, histVars
<1>3. ASSUME NEW w \in Writer, WriterStep(w)
      PROVE  \/ broken' = TRUE
             \/ broken' = broken /\ unrecovered' = unrecovered
  BY <1>3 DEF WriterStep, AnswerWrite, WriteFails, RevokeWriter, BumpStateGeneration,
     BumpStateGenerationFails, BreakWriter, SetBroken, AckWrite, procVars, histVars
<1>4. ASSUME NEW x \in Warmer, WarmerStep(x)
      PROVE  broken' = broken /\ unrecovered' = unrecovered
  BY <1>4 DEF WarmerStep, WarmKey, WarmAnswer, WarmRejected, WarmRecheck, WarmPermit,
     WarmSet, WarmDelete, WarmAbandon, procVars, histVars
<1>5. CASE Environment
  BY <1>5, Zenon DEF Environment, JobDropped, EntryExpires, LeaseExpires, ChangeAccess,
     OriginChanges, Restart, procVars, histVars, FailClosed
<1>6. CASE UNCHANGED vars
  BY <1>6 DEF vars, FailClosed
<1> QED
  BY <1>1, <1>2, <1>3, <1>4, <1>5, <1>6, Zenon DEF Next, FailClosed

\* If cacheBroken outlasts every failed bump, no hit is ever older than what
\* clients had been told: fail-closed serving is all that read-your-writes
\* needs besides the generation checks of serveCache and copyBody.
THEOREM FailClosedSuffices == Spec /\ []FailClosed => []ReadYourWrites
<1>1. Init => AllClosed
  BY DEF Init, AllClosed, IdleReader
<1>2. TypeOK /\ FailClosed /\ AllClosed /\ [Next]_vars => AllClosed'
  BY AllClosedStep
<1>3. ReadYourWritesWhileClosed /\ AllClosed => ReadYourWrites
  BY DEF ReadYourWritesWhileClosed, AllClosed, ReadYourWrites
<1> QED
  BY <1>1, <1>2, <1>3, TypeCorrect, HitsHonourWritesWhileClosed, PTL DEF Spec

\* Without InvalidateCacheContext calls cacheBroken outlasts every failed
\* bump within a process, and every hit honours every confirmed write.
THEOREM WritesAloneAreSafe ==
    ASSUME Invalidator = {}
    PROVE  Spec => [](FailClosed /\ ReadYourWrites)
<1>1. Init => FailClosed
  BY DEF Init, FailClosed
<1>2. TypeOK /\ FailClosed /\ [Next]_vars => FailClosed'
  BY BrokenStep
<1> QED
  BY <1>1, <1>2, TypeCorrect, FailClosedSuffices, PTL DEF Spec

=============================================================================

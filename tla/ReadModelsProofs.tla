-------------------------- MODULE ReadModelsProofs --------------------------
(***************************************************************************)
(* Proofs about the three services whose answers are made of reads of      *)
(* different instants: GatheredReads, for any clients, views, days and     *)
(* calendar and any number of failures; TransactionPages, for any ledger,  *)
(* years, page size and number of requests; and DiscussionPack, for any    *)
(* versions, consent ledgers, moves of the source and faults.              *)
(***************************************************************************)
EXTENDS ReadModels, FiniteSetTheorems, WellFoundedInduction, TLAPS

-----------------------------------------------------------------------------
(* The gathered reads.                                                     *)

BusinessDays == {Calendar[d] : d \in Days}

(* What Core answered for a day is of the business day it belongs to, and  *)
(* whatever it answered is of a business day.                              *)
CacheInv ==
  \A key \in Keys : IsOk(cached[key]) =>
    /\ cached[key].date \in BusinessDays
    /\ key[2] \in Days => cached[key].date = Calendar[key[2]]

(* The reads whose date is fixed before the analytics of a workspace.      *)
Dated(s) == s \notin {"reference", "twr"}

(* The same of the answers that a request has.                             *)
DateInv(q) ==
  \A read \in ReadNames :
    IsCached(read[1]) /\ IsOk(got[q][read]) =>
      /\ got[q][read].date \in BusinessDays
      /\ Dated(read[2]) /\ DateArgument(q, read[1], read[2]) \in Days =>
           got[q][read].date = Calendar[DateArgument(q, read[1], read[2])]

(* The second stage of a workspace is read after the first.                *)
StageInv(q) ==
  \A s \in SecondStage : \A t \in FirstStage :
    <<"workspace", s>> \in ReadNames /\ got[q][<<"workspace", s>>] # Absent =>
      got[q][<<"workspace", t>>] # Absent

(* What is answered is whole, and none of its operations failed.           *)
EndInv(q) ==
  ending[q] = "answered" => \A o \in Gathers[wanted[q]] : IsDone(q, o) /\ ~Fails(q, o)

RequestInv(q) == DateInv(q) /\ StageInv(q) /\ EndInv(q)

ReadsInv == ReadsTypeOK /\ CacheInv /\ \A q \in Requesters : RequestInv(q)

-----------------------------------------------------------------------------
(* The tables of views, operations and sources.                            *)

LEMMA Tables ==
  /\ \A v \in Views : Gathers[v] \subseteq Operations
  /\ \A o \in Operations : \A s \in Sources[o] : <<o, s>> \in ReadNames
  /\ \A read \in ReadNames :
       /\ read = <<read[1], read[2]>>
       /\ read[1] \in Operations /\ read[2] \in Sources[read[1]]
  BY DEF Operations, ReadNames

OperationNames ==
  {"workspace", "positions", "allocations", "liquidity", "probe", "activity",
   "ownReadiness", "ownCash", "ownPortfolio", "capabilities"}

LEMMA Named == Operations \subseteq OperationNames
<1> SUFFICES ASSUME NEW v \in Views, NEW o \in Gathers[v] PROVE o \in OperationNames
  BY DEF Operations
<1>1. v \in DOMAIN Gathers
  BY ReadsAssumption DEF ReadsAssumption
<1>2. \A w \in DOMAIN Gathers : Gathers[w] \subseteq OperationNames
  BY DEF Gathers, OperationNames
<1> QED  BY <1>1, <1>2

(* Only a workspace has analytics.                                         *)
LEMMA AnalyticsOfWorkspace ==
  \A o \in Operations : o # "workspace" => \A s \in Sources[o] : Dated(s)
<1> SUFFICES ASSUME NEW o \in OperationNames, o # "workspace", NEW s \in Sources[o] PROVE Dated(s)
  BY Named
<1> QED  BY DEF OperationNames, Sources, Dated, Platform

LEMMA KeysOfReads ==
  ASSUME NEW o \in Operations, o # "capabilities", NEW s \in Sources[o], NEW d \in Arguments
  PROVE  CacheKey(s, d) \in Keys
  BY DEF Keys, CacheKey

LEMMA WorkspaceReads ==
  ASSUME "workspace" \in Operations
  PROVE  \A s \in FirstStage \cup SecondStage : <<"workspace", s>> \in ReadNames
<1>1. FirstStage \cup SecondStage \subseteq Sources["workspace"]
  BY DEF Sources
<1> QED  BY <1>1, Tables

(* The date that a read asks for is an argument.                           *)
LEMMA ArgumentType ==
  ASSUME ReadsTypeOK, NEW q \in Requesters, NEW o \in Operations, NEW s \in Sources[o]
  PROVE  DateArgument(q, o, s) \in Arguments
<1>1. asked[q] \in Arguments /\ Absent \in Arguments /\ Clock \in Arguments /\ Days \subseteq Arguments
  BY DEF ReadsTypeOK, Arguments
<1>2. \A read \in ReadNames : IsOk(got[q][read]) => got[q][read].date \in Arguments
  BY DEF ReadsTypeOK, IsOk, Answers, Arguments
<1>3. CASE o # "workspace" /\ s \notin {"reference", "twr"}
  BY <1>1, <1>3 DEF DateArgument
<1>4. CASE o = "workspace"
  <2>1. <<o, "aum">> \in ReadNames /\ <<o, "support">> \in ReadNames
    BY <1>4, WorkspaceReads DEF FirstStage
  <2>2. ResolvedDate(q) \in Arguments
    BY <2>1, <1>1, <1>2, <1>4 DEF ResolvedDate
  <2>3. PerformanceDate(q) \in Arguments
    BY <2>2, <1>1 DEF PerformanceDate, Label
  <2>4. CASE s = "twr"
    <3>1. "reference" \in Sources[o]
      BY <1>4, <2>4, ReadsAssumption DEF Sources, FirstStage, SecondStage, ReadsAssumption
    <3>2. <<o, "reference">> \in ReadNames
      BY <3>1, Tables
    <3> QED  BY <3>2, <2>3, <1>1, <1>2, <2>4 DEF DateArgument, SecondStage, Undated
  <2>5. CASE s # "twr"
    BY <2>2, <2>3, <1>1, <2>5 DEF DateArgument, SecondStageDate
  <2> QED  BY <2>4, <2>5
<1>5. o # "workspace" => s \notin {"reference", "twr"}
  BY AnalyticsOfWorkspace DEF Dated
<1> QED  BY <1>3, <1>4, <1>5

-----------------------------------------------------------------------------
LEMMA ReadsInitEstablishes == ReadsInit => ReadsInv
<1> SUFFICES ASSUME ReadsInit PROVE ReadsInv
  OBVIOUS
<1>1. ReadsTypeOK
  BY DEF ReadsInit, ReadsTypeOK, NothingRead
<1>2. CacheInv
  BY DEF ReadsInit, CacheInv, IsOk
<1>3. ASSUME NEW q \in Requesters PROVE RequestInv(q)
  BY DEF ReadsInit, RequestInv, DateInv, StageInv, EndInv, NothingRead, IsOk
<1> QED  BY <1>1, <1>2, <1>3 DEF ReadsInv

(* What q asked for and has read is as it was ...                          *)
SameReads(q) == asked'[q] = asked[q] /\ wanted'[q] = wanted[q] /\ got'[q] = got[q]

LEMMA ReadsRest ==
  ASSUME NEW q \in Requesters, DateInv(q), StageInv(q), SameReads(q)
  PROVE  /\ DateInv(q)' /\ StageInv(q)'
         /\ \A o : IsDone(q, o)' = IsDone(q, o) /\ Fails(q, o)' = Fails(q, o)
<1>1. \A o, s : DateArgument(q, o, s)' = DateArgument(q, o, s)
  BY DEF SameReads, DateArgument, SecondStageDate, ResolvedDate, PerformanceDate, Label, IsOk
<1>2. \A o : IsDone(q, o)' = IsDone(q, o) /\ Fails(q, o)' = Fails(q, o)
  BY DEF SameReads, IsDone, Fails, IsOk, IsOneAllocation
<1> QED  BY <1>1, <1>2 DEF DateInv, StageInv, SameReads, IsOk

(* ... and its request, too.                                               *)
Rests(q) == SameReads(q) /\ ending'[q] = ending[q]

LEMMA RestingKeeps ==
  ASSUME NEW q \in Requesters, RequestInv(q), Rests(q) PROVE RequestInv(q)'
<1>1. /\ DateInv(q)' /\ StageInv(q)'
      /\ \A o : IsDone(q, o)' = IsDone(q, o) /\ Fails(q, o)' = Fails(q, o)
  BY ReadsRest DEF RequestInv, Rests
<1> QED  BY <1>1 DEF RequestInv, EndInv, Rests, SameReads

(* One read of q gets its answer.                                          *)
LEMMA ReceivesMoves ==
  ASSUME ReadsTypeOK, NEW q \in Requesters, NEW o \in Operations, NEW s \in Sources[o],
         NEW a \in Answers, Receives(q, o, s, a)
  PROVE  /\ got' \in [Requesters -> [ReadNames -> Answers \cup {Absent}]]
         /\ \A p \in Requesters : p # q => got'[p] = got[p]
         /\ \A read \in ReadNames : got'[q][read] = IF read = <<o, s>> THEN a ELSE got[q][read]
<1> DEFINE row == [got[q] EXCEPT ![<<o, s>>] = a]
<1>1. got \in [Requesters -> [ReadNames -> Answers \cup {Absent}]] /\ <<o, s>> \in ReadNames
  BY Tables DEF ReadsTypeOK
<1>2. row \in [ReadNames -> Answers \cup {Absent}]
  BY <1>1
<1>3. \A read \in ReadNames : row[read] = IF read = <<o, s>> THEN a ELSE got[q][read]
  BY <1>1
<1>4. got' = [got EXCEPT ![q] = row]
  BY DEF Receives
<1> HIDE DEF row
<1> QED  BY <1>1, <1>2, <1>3, <1>4

(* What a read may be answered.                                            *)
IsOfItsDate(q, o, s, a) ==
  IsCached(o) /\ IsOk(a) =>
    /\ a.date \in BusinessDays
    /\ Dated(s) /\ DateArgument(q, o, s) \in Days => a.date = Calendar[DateArgument(q, o, s)]

(* A read whose answer is of its date keeps the invariant of the request:  *)
(* a read of the first stage moves the date of no answer of the second,    *)
(* since there is none yet.                                                *)
LEMMA ReadKeepsRequest ==
  ASSUME ReadsInv, NEW q \in Requesters, NEW o, NEW s, NEW a \in Answers,
         Reading(q, o, s), Receives(q, o, s, a), IsOfItsDate(q, o, s, a)
  PROVE  RequestInv(q)'
<1>1. o \in Gathers[wanted[q]] /\ wanted[q] \in Views /\ s \in Sources[o]
  BY DEF Reading, ReadsInv, ReadsTypeOK
<1>2. o \in Operations /\ <<o, s>> \in ReadNames
  BY <1>1, Tables
<1>3. \A read \in ReadNames : got'[q][read] = IF read = <<o, s>> THEN a ELSE got[q][read]
  BY <1>1, <1>2, ReceivesMoves DEF ReadsInv
<1>4. a # Absent /\ got[q][<<o, s>>] = Absent /\ RequestInv(q)
  BY AbsentIsNoAnswer DEF Reading, ReadsInv
<1>5. asked'[q] = asked[q] /\ wanted'[q] = wanted[q] /\ ending'[q] = ending[q]
  BY DEF Receives
<1>6. ASSUME NEW read \in ReadNames, IsCached(read[1]), Dated(read[2]), got'[q][read] # Absent
      PROVE  DateArgument(q, read[1], read[2])' = DateArgument(q, read[1], read[2])
  <2>1. CASE read[1] = "workspace" /\ read[2] \in SecondStage
    <3>1. /\ read[1] \in Operations
          /\ <<"workspace", "aum">> \in ReadNames /\ <<"workspace", "support">> \in ReadNames
      BY <2>1, Tables, WorkspaceReads DEF FirstStage
    <3>2. <<o, s>> # <<"workspace", "aum">> /\ <<o, s>> # <<"workspace", "support">>
      <4>1. CASE read = <<o, s>>
        BY <2>1, <4>1 DEF SecondStage
      <4>2. CASE read # <<o, s>>
        <5>1. got[q][read] # Absent /\ read = <<"workspace", read[2]>>
          BY <4>2, <1>3, <1>6, <2>1, Tables
        <5> QED  BY <5>1, <2>1, <1>4 DEF RequestInv, StageInv, FirstStage
      <4> QED  BY <4>1, <4>2
    <3>3. /\ got'[q][<<"workspace", "aum">>] = got[q][<<"workspace", "aum">>]
          /\ got'[q][<<"workspace", "support">>] = got[q][<<"workspace", "support">>]
      BY <3>1, <3>2, <1>3
    <3>4. SecondStageDate(q)' = SecondStageDate(q)
      BY <3>3, <1>5 DEF SecondStageDate, ResolvedDate, IsOk
    <3> QED  BY <3>4, <2>1 DEF DateArgument, Undated, SecondStage
  <2>2. CASE ~(read[1] = "workspace" /\ read[2] \in SecondStage)
    BY <2>2, <1>5, <1>6 DEF DateArgument, Dated
  <2> QED  BY <2>1, <2>2
<1>7. DateInv(q)'
  <2> SUFFICES ASSUME NEW read \in ReadNames, IsCached(read[1]), IsOk(got'[q][read])
               PROVE  /\ got'[q][read].date \in BusinessDays
                      /\ Dated(read[2]) /\ DateArgument(q, read[1], read[2])' \in Days =>
                           got'[q][read].date = Calendar[DateArgument(q, read[1], read[2])']
    BY DEF DateInv, IsCached, IsOk, Dated, BusinessDays, Days
  <2>1. Dated(read[2]) => DateArgument(q, read[1], read[2])' = DateArgument(q, read[1], read[2])
    BY <1>6 DEF IsOk
  <2>2. CASE read = <<o, s>>
    BY <2>1, <2>2, <1>3 DEF IsOfItsDate
  <2>3. CASE read # <<o, s>>
    BY <2>1, <2>3, <1>3, <1>4 DEF RequestInv, DateInv, IsOk
  <2> QED  BY <2>2, <2>3
<1>8. StageInv(q)'
  <2> SUFFICES ASSUME NEW u \in SecondStage, NEW t \in FirstStage, <<"workspace", u>> \in ReadNames,
                      got'[q][<<"workspace", u>>] # Absent
               PROVE  got'[q][<<"workspace", t>>] # Absent
    BY DEF StageInv
  <2>1. <<"workspace", t>> \in ReadNames
    BY Tables, WorkspaceReads
  <2>2. CASE <<o, s>> = <<"workspace", u>>
    <3>1. t \in After(o, s)
      BY <2>2 DEF After, FirstStage, SecondStage
    <3> QED  BY <3>1, <2>1, <2>2, <1>3, <1>4 DEF Reading
  <2>3. CASE <<o, s>> # <<"workspace", u>>
    BY <2>1, <2>3, <1>3, <1>4 DEF RequestInv, StageInv
  <2> QED  BY <2>2, <2>3
<1>9. EndInv(q)'
  <2>1. ending[q] # "answered"
    BY <1>1, <1>4 DEF RequestInv, EndInv, IsDone
  <2> QED  BY <2>1, <1>5 DEF EndInv
<1> QED  BY <1>7, <1>8, <1>9 DEF RequestInv

(* A read of q leaves the other requests alone, and the types.             *)
LEMMA ReadKeeps ==
  ASSUME ReadsInv, NEW q \in Requesters, NEW o, NEW s, NEW a \in Answers,
         Reading(q, o, s), Receives(q, o, s, a), IsOfItsDate(q, o, s, a),
         CacheInv', cached' \in [Keys -> Answers \cup {Absent}], failing' \in 0 .. MaxFailing
  PROVE  ReadsInv'
<1>1. o \in Operations /\ s \in Sources[o]
  BY Tables DEF Reading, ReadsInv, ReadsTypeOK
<1>2. /\ got' \in [Requesters -> [ReadNames -> Answers \cup {Absent}]]
      /\ \A p \in Requesters : p # q => got'[p] = got[p]
  BY <1>1, ReceivesMoves DEF ReadsInv
<1>3. ReadsTypeOK'
  BY <1>2 DEF ReadsInv, ReadsTypeOK, Receives
<1>4. ASSUME NEW p \in Requesters PROVE RequestInv(p)'
  <2>1. CASE p = q
    BY <2>1, ReadKeepsRequest
  <2>2. CASE p # q
    <3>1. Rests(p)
      BY <2>2, <1>2 DEF Rests, SameReads, Receives
    <3> QED  BY <3>1, RestingKeeps DEF ReadsInv
  <2> QED  BY <2>1, <2>2
<1> QED  BY <1>3, <1>4 DEF ReadsInv

(* The key of a read in the cache.                                         *)
LEMMA KeyOfRead ==
  ASSUME ReadsInv, NEW q \in Requesters, NEW o, NEW s, Reading(q, o, s), IsCached(o)
  PROVE  CacheKey(s, DateArgument(q, o, s)) \in Keys
<1>1. o \in Operations /\ s \in Sources[o]
  BY Tables DEF Reading, ReadsInv, ReadsTypeOK
<1> QED  BY <1>1, ArgumentType, KeysOfReads DEF ReadsInv, IsCached

LEMMA HitKeeps ==
  ASSUME ReadsInv, NEW q \in Requesters, NEW o, NEW s, Hit(q, o, s) PROVE ReadsInv'
<1> DEFINE d == DateArgument(q, o, s)
           a == cached[CacheKey(s, d)]
<1>1. Reading(q, o, s) /\ IsCached(o) /\ a # Absent /\ Receives(q, o, s, a)
  BY DEF Hit, Entry
<1>2. CacheKey(s, d) \in Keys /\ CacheKey(s, d)[2] = d
  BY <1>1, KeyOfRead DEF CacheKey
<1>3. a \in Answers
  BY <1>1, <1>2 DEF ReadsInv, ReadsTypeOK
<1>4. IsOfItsDate(q, o, s, a)
  BY <1>2 DEF ReadsInv, CacheInv, IsOfItsDate
<1>5. /\ cached' = cached /\ failing' = failing
  BY DEF Hit
<1>6. /\ CacheInv' /\ cached' \in [Keys -> Answers \cup {Absent}] /\ failing' \in 0 .. MaxFailing
  BY <1>5 DEF ReadsInv, ReadsTypeOK, CacheInv
<1> HIDE DEF a, d
<1> QED  BY <1>1, <1>3, <1>4, <1>6, ReadKeeps

(* What Core answers is of the business day asked for.                     *)
LEMMA CoreAnswers ==
  ASSUME ReadsTypeOK, NEW d
  PROVE  CoreDate(d) \in BusinessDays /\ (d \in Days => CoreDate(d) = Calendar[d])
  BY DEF CoreDate, BusinessDays, ReadsTypeOK

LEMMA FetchKeeps ==
  ASSUME ReadsInv, NEW q \in Requesters, NEW o, NEW s, Fetch(q, o, s) PROVE ReadsInv'
<1> DEFINE d == DateArgument(q, o, s)
<1>1. PICK a \in Answers :
        /\ a.date = IF a.status = "ok" /\ IsCached(o) THEN CoreDate(d) ELSE Absent
        /\ a.status # "ok" => failing > 0
        /\ failing' = IF a.status = "ok" THEN failing ELSE failing - 1
        /\ cached' = Stored(o, s, d, a)
        /\ Receives(q, o, s, a)
  BY DEF Fetch
<1>2. Reading(q, o, s)
  BY DEF Fetch
<1>3. IsCached(o) /\ IsOk(a) => a.date \in BusinessDays /\ (d \in Days => a.date = Calendar[d])
  BY <1>1, CoreAnswers DEF ReadsInv, IsOk
<1>4. IsOfItsDate(q, o, s, a)
  BY <1>3 DEF IsOfItsDate
<1>5. failing' \in 0 .. MaxFailing
  BY <1>1, ReadsAssumption DEF ReadsInv, ReadsTypeOK, ReadsAssumption
<1>6. cached' \in [Keys -> Answers \cup {Absent}] /\ CacheInv'
  <2>1. CASE IsCached(o)
    <3>1. CacheKey(s, d) \in Keys /\ CacheKey(s, d)[2] = d
      BY <1>2, <2>1, KeyOfRead DEF CacheKey
    <3>2. cached' = [cached EXCEPT ![CacheKey(s, d)] = a]
      BY <1>1, <2>1 DEF Stored
    <3>3. /\ cached' \in [Keys -> Answers \cup {Absent}]
          /\ \A key \in Keys : cached'[key] = IF key = CacheKey(s, d) THEN a ELSE cached[key]
      BY <3>1, <3>2 DEF ReadsInv, ReadsTypeOK
    <3> HIDE DEF d
    <3> QED  BY <3>1, <3>3, <1>3, <2>1 DEF ReadsInv, CacheInv, IsOk
  <2>2. CASE ~IsCached(o)
    BY <1>1, <2>2 DEF Stored, ReadsInv, ReadsTypeOK, CacheInv
  <2> QED  BY <2>1, <2>2
<1> HIDE DEF d
<1> QED  BY <1>1, <1>2, <1>4, <1>5, <1>6, ReadKeeps

LEMMA LateKeeps ==
  ASSUME ReadsInv, NEW q \in Requesters, NEW o, NEW s, Late(q, o, s) PROVE ReadsInv'
<1> DEFINE a == [status |-> "late", date |-> Absent]
<1>1. a \in Answers
  BY DEF Answers, AnswerStatuses
<1>2. Reading(q, o, s) /\ Receives(q, o, s, a) /\ cached' = cached /\ failing' = failing
  BY DEF Late
<1>3. IsOfItsDate(q, o, s, a)
  BY DEF Late, IsOfItsDate, IsCached
<1>4. CacheInv' /\ cached' \in [Keys -> Answers \cup {Absent}] /\ failing' \in 0 .. MaxFailing
  BY <1>2 DEF ReadsInv, ReadsTypeOK, CacheInv
<1> HIDE DEF a
<1> QED  BY <1>1, <1>2, <1>3, <1>4, ReadKeeps

(* A call starts from nothing read.                                        *)
LEMMA CallKeeps ==
  ASSUME ReadsInv, NEW q \in Requesters, Call(q) PROVE ReadsInv'
<1>1. PICK v \in Views : wanted' = [wanted EXCEPT ![q] = v]
  BY DEF Call
<1>2. PICK d \in 0 .. day \cup {Absent} : asked' = [asked EXCEPT ![q] = d]
  BY DEF Call
<1>3. d \in Days \cup {Absent}
  BY <1>2, ReadsAssumption DEF ReadsInv, ReadsTypeOK, Days, ReadsAssumption
<1>4. NothingRead \in [ReadNames -> Answers \cup {Absent}]
  BY DEF NothingRead
<1>5. ReadsTypeOK'
  BY <1>1, <1>2, <1>3, <1>4 DEF Call, ReadsInv, ReadsTypeOK
<1>6. CacheInv'
  BY DEF Call, ReadsInv, CacheInv
<1>7. got'[q] = NothingRead /\ ending'[q] = "running"
  BY DEF Call, ReadsInv, ReadsTypeOK
<1>8. \A read \in ReadNames : got'[q][read] = Absent
  BY <1>7 DEF NothingRead
<1>9. RequestInv(q)'
  BY <1>7, <1>8 DEF RequestInv, DateInv, StageInv, EndInv, IsOk
<1>10. ASSUME NEW p \in Requesters, p # q PROVE RequestInv(p)'
  <2>1. Rests(p)
    BY <1>1, <1>2, <1>10 DEF Call, Rests, SameReads, ReadsInv, ReadsTypeOK
  <2> QED  BY <2>1, RestingKeeps DEF ReadsInv
<1> QED  BY <1>5, <1>6, <1>9, <1>10 DEF ReadsInv

(* A request ends answered only when nothing is missing and nothing failed. *)
LEMMA FinishKeeps ==
  ASSUME ReadsInv, NEW q \in Requesters, NEW how \in {"answered", "raised"}, Finishes(q, how),
         how = "answered" => \A o \in Gathers[wanted[q]] : IsDone(q, o) /\ ~Fails(q, o)
  PROVE  ReadsInv'
<1>1. ReadsTypeOK'
  BY DEF Finishes, ReadsInv, ReadsTypeOK
<1>2. CacheInv'
  BY DEF Finishes, ReadsInv, CacheInv
<1>3. ending'[q] = how /\ \A p \in Requesters : p # q => ending'[p] = ending[p]
  BY DEF Finishes, ReadsInv, ReadsTypeOK
<1>4. RequestInv(q)'
  <2>1. SameReads(q)
    BY DEF Finishes, SameReads
  <2>2. /\ DateInv(q)' /\ StageInv(q)'
        /\ \A o : IsDone(q, o)' = IsDone(q, o) /\ Fails(q, o)' = Fails(q, o)
    BY <2>1, ReadsRest DEF ReadsInv, RequestInv
  <2>3. EndInv(q)'
    BY <2>1, <2>2, <1>3 DEF EndInv, SameReads
  <2> QED  BY <2>2, <2>3 DEF RequestInv
<1>5. ASSUME NEW p \in Requesters, p # q PROVE RequestInv(p)'
  <2>1. Rests(p)
    BY <1>3, <1>5 DEF Finishes, Rests, SameReads
  <2> QED  BY <2>1, RestingKeeps DEF ReadsInv
<1> QED  BY <1>1, <1>2, <1>4, <1>5 DEF ReadsInv

LEMMA RestKeeps ==
  ASSUME ReadsInv, NextDay \/ UNCHANGED readVars PROVE ReadsInv'
<1>1. ReadsTypeOK'
  BY ReadsAssumption DEF NextDay, readVars, ReadsInv, ReadsTypeOK, Days, ReadsAssumption
<1>2. CacheInv'
  BY DEF NextDay, readVars, ReadsInv, CacheInv
<1>3. ASSUME NEW p \in Requesters PROVE RequestInv(p)'
  <2>1. Rests(p)
    BY DEF NextDay, readVars, Rests, SameReads
  <2> QED  BY <2>1, RestingKeeps DEF ReadsInv
<1> QED  BY <1>1, <1>2, <1>3 DEF ReadsInv

LEMMA ReadsNextPreserves == ReadsInv /\ [ReadsNext]_readVars => ReadsInv'
<1> SUFFICES ASSUME ReadsInv, [ReadsNext]_readVars PROVE ReadsInv'
  OBVIOUS
<1>1. ASSUME NEW q \in Requesters, Raise(q) PROVE ReadsInv'
  BY <1>1, FinishKeeps DEF Raise
<1>2. ASSUME NEW q \in Requesters, Reply(q) PROVE ReadsInv'
  BY <1>2, FinishKeeps DEF Reply, IsComplete
<1>3. ASSUME NEW q \in Requesters, ReadTurn(q) \/ LateTurn(q) PROVE ReadsInv'
  BY <1>3, HitKeeps, FetchKeeps, LateKeeps DEF ReadTurn, LateTurn
<1> QED  BY <1>1, <1>2, <1>3, CallKeeps, RestKeeps DEF ReadsNext

(* What Core answered for a day is of that day's business day, in the cache *)
(* and in a request, the second stage follows the first (portfolio_         *)
(* workspace_sources.py:79-86), and what is answered is whole.              *)
THEOREM ReadsInvariance == ReadsSpec => []ReadsInv
<1> QED  BY ReadsInitEstablishes, ReadsNextPreserves, PTL DEF ReadsSpec

(* The cache holds answers under its keys, and a request gathers only      *)
(* answers (portfolio_upstream_access.py:35-45).                           *)
THEOREM ReadsTypesHold == ReadsSpec => []ReadsTypeOK
<1>1. ReadsInv => ReadsTypeOK
  BY DEF ReadsInv
<1> QED  BY <1>1, ReadsInvariance, PTL

-----------------------------------------------------------------------------
(* That an answer comes.                                                   *)

(* The reads that a read waits for are reads of the same operation.        *)
LEMMA StagesAreRead ==
  ASSUME NEW o \in Operations, NEW s \in Sources[o], NEW t \in After(o, s)
  PROVE  /\ o = "workspace" /\ t \in Sources[o] /\ s \notin FirstStage
         /\ t \in FirstStage \/ (t \in SecondStage /\ s \notin SecondStage) \/ (t = "reference" /\ s = "twr")
<1>1. o = "workspace" /\ s \notin FirstStage
  BY DEF After
<1>2. Sources["workspace"] = FirstStage \cup SecondStage \cup Enrichments
  BY DEF Sources
<1>3. s = "twr" => "reference" \in Enrichments
  BY <1>1, <1>2, ReadsAssumption DEF FirstStage, SecondStage, ReadsAssumption
<1> QED  BY <1>1, <1>2, <1>3 DEF After, FirstStage, SecondStage

(* Of the reads without an answer, one waits for none of the others.       *)
LEMMA SomethingToRead ==
  ASSUME NEW q \in Requesters, ending[q] # "none", NEW o \in Operations, o \in Gathers[wanted[q]], ~IsDone(q, o)
  PROVE  \E s \in Sources[o] : Reading(q, o, s)
<1> DEFINE Open(s) == s \in Sources[o] /\ got[q][<<o, s>>] = Absent
           Readable == \E s \in Sources[o] : Reading(q, o, s)
<1>1. PICK s : Open(s)
  BY DEF IsDone
<1>2. ASSUME NEW u, Open(u), \A t \in After(o, u) : ~Open(t) PROVE Readable
  <2>1. \A t \in After(o, u) : got[q][<<o, t>>] # Absent
    BY <1>2, StagesAreRead
  <2> QED  BY <2>1, <1>2 DEF Reading
<1>3. ASSUME NEW u, Open(u), u \in FirstStage PROVE Readable
  <2>1. After(o, u) = {}
    BY <1>3 DEF After
  <2> QED  BY <2>1, <1>2, <1>3
<1>4. ASSUME NEW u, Open(u), u # "twr" PROVE Readable
  <2>1. ASSUME NEW t \in After(o, u), Open(t) PROVE Readable
    <3>1. t \in FirstStage \/ (t \in SecondStage /\ u \notin SecondStage)
      BY <1>4, <2>1, StagesAreRead
    <3>2. CASE t \in SecondStage /\ \A w \in After(o, t) : ~Open(w)
      BY <3>2, <1>2, <2>1
    <3>3. CASE t \in SecondStage /\ \E w \in After(o, t) : Open(w)
      <4>1. PICK w \in After(o, t) : Open(w)
        BY <3>3
      <4>2. After(o, t) \subseteq FirstStage
        BY <3>3 DEF After, FirstStage, SecondStage
      <4> QED  BY <4>1, <4>2, <1>3
    <3> QED  BY <3>1, <3>2, <3>3, <1>3, <2>1
  <2> QED  BY <2>1, <1>2, <1>4
<1>5. CASE s = "twr"
  <2>1. ASSUME NEW t \in After(o, s), Open(t) PROVE Readable
    <3>1. t # "twr"
      BY <1>5, <2>1 DEF After, FirstStage, SecondStage
    <3> QED  BY <3>1, <2>1, <1>4
  <2> QED  BY <2>1, <1>1, <1>2
<1> HIDE DEF Open
<1> QED  BY <1>1, <1>4, <1>5

(* A request in progress has something to read, or has read it all         *)
(* (portfolio_workspace_sources.py:60-87).                                 *)
THEOREM RequestsGoOnHolds == ReadsSpec => []RequestsGoOn
<1>1. ReadsTypeOK => RequestsGoOn
  <2> SUFFICES ASSUME ReadsTypeOK, NEW q \in Requesters, ending[q] = "running", ~IsComplete(q)
               PROVE  \E read \in ReadNames : Reading(q, read[1], read[2])
    BY DEF RequestsGoOn
  <2>1. PICK o \in Gathers[wanted[q]] : ~IsDone(q, o)
    BY DEF IsComplete
  <2>2. o \in Operations
    BY Tables DEF ReadsTypeOK
  <2>3. PICK s \in Sources[o] : Reading(q, o, s)
    BY <2>1, <2>2, SomethingToRead
  <2>4. <<o, s>> \in ReadNames
    BY <2>2, Tables
  <2> QED  BY <2>3, <2>4
<1> QED  BY <1>1, ReadsTypesHold, PTL

(* No source of the capabilities is required, and none is decisive         *)
(* (platform_capabilities_service.py:231-232).                             *)
THEOREM CapabilitiesNotRefused == ReadsSpec => []CapabilitiesAreNotRefused
<1>1. ReadsInit => CapabilitiesAreNotRefused
  BY DEF ReadsInit, CapabilitiesAreNotRefused
<1>2. ReadsTypeOK /\ CapabilitiesAreNotRefused /\ [ReadsNext]_readVars => CapabilitiesAreNotRefused'
  <2> SUFFICES ASSUME ReadsTypeOK, CapabilitiesAreNotRefused, [ReadsNext]_readVars
               PROVE  CapabilitiesAreNotRefused'
    OBVIOUS
  <2>1. ASSUME NEW q \in Requesters, Call(q) PROVE CapabilitiesAreNotRefused'
    <3>1. ending' = [ending EXCEPT ![q] = "running"] /\ \E v \in Views : wanted' = [wanted EXCEPT ![q] = v]
      BY <2>1 DEF Call
    <3> QED  BY <3>1 DEF ReadsTypeOK, CapabilitiesAreNotRefused
  <2>2. ASSUME NEW q \in Requesters, Raise(q) PROVE CapabilitiesAreNotRefused'
    <3>1. PICK o \in Gathers[wanted[q]] : Fails(q, o)
      BY <2>2 DEF Raise
    <3>2. ~Fails(q, "capabilities")
      BY DEF Fails, Required, Decisive
    <3>3. Gathers["capabilities"] = {"capabilities"}
      BY DEF Gathers
    <3>4. wanted[q] # "capabilities"
      BY <3>1, <3>2, <3>3
    <3> QED  BY <2>2, <3>4 DEF Raise, Finishes, ReadsTypeOK, CapabilitiesAreNotRefused
  <2>3. ASSUME NEW q \in Requesters, Reply(q) PROVE CapabilitiesAreNotRefused'
    BY <2>3 DEF Reply, Finishes, ReadsTypeOK, CapabilitiesAreNotRefused
  <2>4. ASSUME NEW q \in Requesters, ReadTurn(q) \/ LateTurn(q) PROVE CapabilitiesAreNotRefused'
    BY <2>4 DEF ReadTurn, LateTurn, Hit, Fetch, Late, Receives, CapabilitiesAreNotRefused
  <2>5. ASSUME NextDay \/ UNCHANGED readVars PROVE CapabilitiesAreNotRefused'
    BY <2>5 DEF NextDay, readVars, CapabilitiesAreNotRefused
  <2> QED  BY <2>1, <2>2, <2>3, <2>4, <2>5 DEF ReadsNext
<1> QED  BY <1>1, <1>2, ReadsTypesHold, PTL DEF ReadsSpec

(* A step of p's client, or of the days, is no step of q.                  *)
FillsUp(q) ==
  /\ wanted'[q] = wanted[q] /\ asked'[q] = asked[q]
  /\ \A read \in ReadNames : got[q][read] # Absent => got'[q][read] = got[q][read]
  /\ got'[q] # got[q] => Unread(q)' # Unread(q)
  /\ ending'[q] # ending[q] => ending[q] = "running" /\ got'[q] = got[q]

LEMMA ReadFillsUp ==
  ASSUME ReadsTypeOK, NEW q \in Requesters, NEW p \in Requesters, NEW o, NEW s, NEW a \in Answers,
         Reading(p, o, s), Receives(p, o, s, a)
  PROVE  FillsUp(q)
<1>1. o \in Operations /\ s \in Sources[o] /\ <<o, s>> \in ReadNames
  BY Tables DEF Reading, ReadsTypeOK
<1>2. /\ \A r \in Requesters : r # p => got'[r] = got[r]
      /\ \A read \in ReadNames : got'[p][read] = IF read = <<o, s>> THEN a ELSE got[p][read]
  BY <1>1, ReceivesMoves
<1>3. wanted' = wanted /\ asked' = asked /\ ending' = ending
  BY DEF Receives
<1>4. CASE q # p
  BY <1>2, <1>3, <1>4 DEF FillsUp
<1>5. CASE q = p
  <2>1. got[q][<<o, s>>] = Absent
    BY <1>5 DEF Reading
  <2>2. <<o, s>> \in Unread(q)
    BY <2>1, <1>1, <1>5 DEF Unread, Reading
  <2>3. <<o, s>> \notin Unread(q)'
    BY <1>1, <1>2, <1>5, AbsentIsNoAnswer DEF Unread
  <2> QED  BY <2>1, <2>2, <2>3, <1>2, <1>3, <1>5 DEF FillsUp
<1> QED  BY <1>4, <1>5

(* What a request has read stays as it was read, and each step of it reads *)
(* one thing more or ends it (portfolio_upstream_access.py:35-45).         *)
THEOREM ReadsFillUpHolds == ReadsSpec => ReadsFillUp
<1>1. ReadsTypeOK /\ [ReadsNext]_readVars => [\A q \in Requesters : ~Asks(q) => FillsUp(q)]_readVars
  <2> SUFFICES ASSUME ReadsTypeOK, ReadsNext, NEW q \in Requesters, ~Asks(q) PROVE FillsUp(q)
    OBVIOUS
  <2>1. ASSUME NEW p \in Requesters, Call(p) PROVE FillsUp(q)
    <3>1. q # p
      BY <2>1 DEF Call, Asks, ReadsTypeOK
    <3>2. /\ \E v \in Views : wanted' = [wanted EXCEPT ![p] = v]
          /\ \E d \in 0 .. day \cup {Absent} : asked' = [asked EXCEPT ![p] = d]
          /\ got' = [got EXCEPT ![p] = NothingRead] /\ ending' = [ending EXCEPT ![p] = "running"]
      BY <2>1 DEF Call
    <3> QED  BY <3>1, <3>2 DEF FillsUp, ReadsTypeOK
  <2>2. ASSUME NEW p \in Requesters, Raise(p) \/ Reply(p) PROVE FillsUp(q)
    BY <2>2 DEF Raise, Reply, Finishes, FillsUp, ReadsTypeOK
  <2>3. ASSUME NEW p \in Requesters, NEW read \in ReadNames, Hit(p, read[1], read[2]) PROVE FillsUp(q)
    <3> DEFINE key == CacheKey(read[2], DateArgument(p, read[1], read[2]))
    <3>1. read[1] \in Operations /\ read[2] \in Sources[read[1]] /\ IsCached(read[1])
      BY <2>3, Tables DEF Hit, Entry
    <3>2. key \in Keys
      BY <3>1, ArgumentType, KeysOfReads DEF IsCached
    <3>3. cached[key] \in Answers
      BY <2>3, <3>1, <3>2 DEF Hit, Entry, ReadsTypeOK
    <3>4. Reading(p, read[1], read[2]) /\ Receives(p, read[1], read[2], cached[key])
      BY <2>3, <3>1 DEF Hit, Entry
    <3> HIDE DEF key
    <3> QED  BY <3>3, <3>4, ReadFillsUp
  <2>4. ASSUME NEW p \in Requesters, NEW read \in ReadNames, Fetch(p, read[1], read[2]) PROVE FillsUp(q)
    <3>1. PICK a \in Answers : Receives(p, read[1], read[2], a)
      BY <2>4 DEF Fetch
    <3>2. Reading(p, read[1], read[2])
      BY <2>4 DEF Fetch
    <3> QED  BY <3>1, <3>2, ReadFillsUp
  <2>5. ASSUME NEW p \in Requesters, NEW read \in ReadNames, Late(p, read[1], read[2]) PROVE FillsUp(q)
    <3>1. [status |-> "late", date |-> Absent] \in Answers
      BY DEF Answers, AnswerStatuses
    <3> QED  BY <2>5, <3>1, ReadFillsUp DEF Late
  <2>6. ASSUME NextDay PROVE FillsUp(q)
    BY <2>6 DEF NextDay, FillsUp
  <2> QED  BY <2>1, <2>2, <2>3, <2>4, <2>5, <2>6 DEF ReadsNext, ReadTurn, LateTurn
<1>2. [\A q \in Requesters : ~Asks(q) => FillsUp(q)]_readVars
        => [\A q \in Requesters : ~Asks(q) =>
             /\ wanted'[q] = wanted[q] /\ asked'[q] = asked[q]
             /\ \A read \in ReadNames : got[q][read] # Absent => got'[q][read] = got[q][read]
             /\ got'[q] # got[q] => Unread(q)' # Unread(q)
             /\ ending'[q] # ending[q] => ending[q] = "running" /\ got'[q] = got[q]]_readVars
  BY DEF FillsUp
<1> QED  BY <1>1, <1>2, ReadsTypesHold, PTL DEF ReadsSpec, ReadsFillUp

-----------------------------------------------------------------------------
(* A business day belongs to itself.                                       *)
LEMMA BusinessDaysFixed == BusinessDays \subseteq Days /\ \A d \in BusinessDays : Calendar[d] = d
  BY ReadsAssumption DEF BusinessDays, ReadsAssumption

(* The dated blocks of a workspace are of the date that it carries         *)
(* (portfolio_workspace_sources.py:79-86, portfolio_service.py:108-112).   *)
THEOREM WorkspaceAligned == ReadsSpec => []WorkspaceIsAligned
<1>1. ReadsInv => WorkspaceIsAligned
  <2> SUFFICES ASSUME ReadsInv, NEW q \in Requesters, Shows(q, "workspace"), CoreNamedTheDay(q),
                      NEW s \in {"aum"} \cup SecondStage,
                      IsOk(got[q][<<"workspace", s>>])
               PROVE  got[q][<<"workspace", s>>].date = Label(q)
    BY DEF WorkspaceIsAligned, DatesOf
  <2>1. "workspace" \in Operations /\ wanted[q] \in Views
    BY Tables DEF Shows, ReadsInv, ReadsTypeOK
  <2>2. /\ <<"workspace", s>> \in ReadNames
        /\ <<"workspace", "aum">> \in ReadNames /\ <<"workspace", "support">> \in ReadNames
    BY <2>1, WorkspaceReads DEF FirstStage
  <2>3. \A read \in ReadNames : IsCached(read[1]) /\ IsOk(got[q][read]) =>
          got[q][read].date \in BusinessDays
    BY DEF ReadsInv, RequestInv, DateInv
  <2>4. CASE s = "aum"
    <3>1. got[q][<<"workspace", "aum">>].date \in Days
      BY <2>2, <2>3, <2>4, BusinessDaysFixed DEF IsCached
    <3> QED  BY <3>1, <2>4, ReadsAssumption DEF Label, ResolvedDate, ReadsAssumption
  <2>5. CASE s \in SecondStage
    <3>1. ResolvedDate(q) \in Days /\ Calendar[ResolvedDate(q)] = ResolvedDate(q)
      <4>1. CASE IsOk(got[q][<<"workspace", "aum">>])
        BY <4>1, <2>2, <2>3, BusinessDaysFixed DEF ResolvedDate, IsCached
      <4>2. CASE ~IsOk(got[q][<<"workspace", "aum">>]) /\ asked[q] # Absent
        BY <4>2 DEF ResolvedDate, CoreNamedTheDay, ReadsInv, ReadsTypeOK
      <4>3. CASE ~IsOk(got[q][<<"workspace", "aum">>]) /\ asked[q] = Absent
        BY <4>3, <2>2, <2>3, BusinessDaysFixed DEF ResolvedDate, CoreNamedTheDay, IsCached
      <4> QED  BY <4>1, <4>2, <4>3
    <3>2. Label(q) = ResolvedDate(q)
      BY <3>1, ReadsAssumption DEF Label, ReadsAssumption
    <3>3. DateArgument(q, "workspace", s) = ResolvedDate(q)
      BY <2>5 DEF DateArgument, SecondStageDate, Undated, SecondStage
    <3>4. Dated(s)
      BY <2>5 DEF Dated, SecondStage
    <3> QED  BY <3>1, <3>2, <3>3, <3>4, <2>2 DEF ReadsInv, RequestInv, DateInv, IsCached
  <2> QED  BY <2>4, <2>5
<1> QED  BY <1>1, ReadsInvariance, PTL

(* The sections of a book asked for with a date are of that date: the      *)
(* allocations are refused unless the date is a business day, and then     *)
(* every read for it is of it (portfolio_allocation_payloads.py:48-62).    *)
THEOREM BookAligned == ReadsSpec => []BookIsAligned
<1>1. ReadsInv => BookIsAligned
  <2> SUFFICES ASSUME ReadsInv, NEW q \in Requesters, ending[q] = "answered", wanted[q] = "book",
                      asked[q] # Absent
               PROVE  BookDates(q) = {asked[q]}
    BY DEF BookIsAligned
  <2> DEFINE BookReads == {<<"positions", "aum">>, <<"positions", "positions">>, <<"allocations", "aum">>,
                           <<"allocations", "positions">>, <<"allocations", "allocation">>,
                           <<"ownCash", "cash">>}
  <2>1. asked[q] \in Days /\ wanted[q] \in Views
    BY DEF ReadsInv, ReadsTypeOK
  <2>2. \A o \in Gathers["book"] : o \in Operations /\ ~Fails(q, o)
    BY <2>1, Tables DEF ReadsInv, RequestInv, EndInv
  <2>3. "positions" \in Gathers["book"] /\ "allocations" \in Gathers["book"] /\ "ownCash" \in Gathers["book"]
    BY DEF Gathers
  <2>4. /\ Sources["positions"] = {"aum", "positions"}
        /\ Sources["allocations"] = {"aum", "positions", "allocation"}
        /\ Sources["ownCash"] = {"cash"}
    BY DEF Sources
  <2>5. \A read \in BookReads : read \in ReadNames
    BY <2>2, <2>3, <2>4, Tables
  <2>6. \A read \in BookReads : IsOk(got[q][read])
    BY <2>2, <2>3, <2>4 DEF Fails, Required
  <2>7. \A read \in BookReads : got[q][read].date = Calendar[asked[q]]
    <3>1. \A read \in BookReads : DateArgument(q, read[1], read[2]) = asked[q] /\ IsCached(read[1]) /\ Dated(read[2])
      BY DEF DateArgument, Undated, IsCached, Dated
    <3> QED  BY <3>1, <2>1, <2>5, <2>6 DEF ReadsInv, RequestInv, DateInv
  <2>8. Calendar[asked[q]] = asked[q]
    BY <2>1, <2>2, <2>3, <2>7 DEF Fails, IsOneAllocation
  <2> QED  BY <2>4, <2>6, <2>7, <2>8 DEF BookDates, DatesOf
<1> QED  BY <1>1, ReadsInvariance, PTL

(* What one answer shows, of the workspace or of a book, is of the date it *)
(* carries (portfolio_service.py, portfolio_book_sources.py).              *)
THEOREM SectionsAgreed == ReadsSpec => []SectionsAgree
<1>1. WorkspaceIsAligned /\ BookIsAligned => SectionsAgree
  BY DEF SectionsAgree
<1> QED  BY <1>1, WorkspaceAligned, BookAligned, PTL

-----------------------------------------------------------------------------
(* The pages of the ledger.                                                *)

(* The rows of the ledger L in the window of a page's key. *)
RowsOf(key, L) == {r \in L : key[1] <= DateOf[r] /\ DateOf[r] <= key[2]}

(* The rows that come before place n.                                      *)
Prefix(R, n) == {r \in R : Place(r, R) < n}

(* A snapshot L of the ledger: what has come since, before one of its      *)
(* transactions, is known as such.                                         *)
IsSnapshot(L) ==
  /\ L \subseteq ledger
  /\ \A r \in ledger \ L : \A x \in L : r < x => r \in backdated

(* A page ends within the rows there were, and is empty only if there were *)
(* none left.                                                              *)
PageInv ==
  \A key \in PageKeys : pages[key] # NoDate =>
    LET n == Cardinality(RowsOf(key, pages[key].ledger)) IN
    /\ IsSnapshot(pages[key].ledger)
    /\ pages[key].size = 0 => n <= key[3]
    /\ pages[key].size # 0 => key[3] + pages[key].size <= n

(* Of a request that lists pages or has: its rows so far are those before  *)
(* skip, and at the end they are no fewer than the oldest page knew of.    *)
Active(q) == reader[q].step \in {"listing", "done"}

CountInv(q) == \A r \in Transactions : listed[q][r] <= reader[q].skip

BasisInv(q) ==
  Active(q) =>
    /\ reader[q].skip <= Cardinality(YearRows(q, ledger))
    /\ \/ basis[q] \subseteq ledger
       \/ reader[q].skip = 0 /\ reader[q].step = "listing" /\ basis[q] = Transactions

SoFar(q) == Prefix(YearRows(q, ledger), reader[q].skip)

RowsInv(q) ==
  Active(q) /\ ~Upset(q) =>
    /\ \A r \in Transactions : listed[q][r] = IF r \in SoFar(q) THEN 1 ELSE 0
    /\ reader[q].step = "done" => YearRows(q, basis[q]) \subseteq SoFar(q)

ReaderInv(q) == CountInv(q) /\ BasisInv(q) /\ RowsInv(q)

PagesInv == PagesTypeOK /\ PageInv /\ \A q \in Readers : ReaderInv(q)

-----------------------------------------------------------------------------
(* Places and cardinalities of sets of transactions.                       *)

LEMMA Finite ==
  ASSUME NEW S \in SUBSET Transactions
  PROVE  IsFiniteSet(S) /\ Cardinality(S) \in Nat /\ Cardinality(S) <= LastRow
<1>1. IsFiniteSet(Transactions) /\ Cardinality(Transactions) = LastRow
  BY FS_Interval, PagesAssumption DEF Transactions, PagesAssumption
<1> QED  BY <1>1, FS_Subset, FS_CardinalityType

LEMMA Grows ==
  ASSUME NEW R \in SUBSET Transactions, NEW S \in SUBSET R
  PROVE  /\ Cardinality(S) <= Cardinality(R)
         /\ S # R => Cardinality(S) < Cardinality(R)
  BY Finite, FS_Subset

LEMMA Places ==
  ASSUME NEW R \in SUBSET Transactions
  PROVE  /\ \A r \in Transactions : Place(r, R) \in Nat /\ Place(r, R) <= Cardinality(R)
         /\ \A r \in R : Place(r, R) < Cardinality(R)
         /\ \A r \in R, x \in R : x < r => Place(x, R) < Place(r, R)
<1>1. ASSUME NEW r \in Transactions PROVE Place(r, R) \in Nat /\ Place(r, R) <= Cardinality(R)
  BY Finite, Grows, {x \in R : x < r} \in SUBSET R DEF Place
<1>2. ASSUME NEW r \in R PROVE Place(r, R) < Cardinality(R)
  <2>1. {x \in R : x < r} \in SUBSET R /\ r \notin {x \in R : x < r}
    BY DEF Transactions
  <2> QED  BY <2>1, Grows DEF Place
<1>3. ASSUME NEW r \in R, NEW x \in R, x < r PROVE Place(x, R) < Place(r, R)
  <2> DEFINE A == {y \in R : y < r}
             B == {y \in R : y < x}
  <2>1. A \in SUBSET Transactions
    OBVIOUS
  <2>2. B \in SUBSET A /\ x \in A /\ x \notin B
    <3>1. R \subseteq Int
      BY PagesAssumption DEF Transactions, PagesAssumption
    <3>2. \A y \in R : y < x => y < r
      BY <3>1, <1>3
    <3>3. ~(x < x)
      BY <3>1
    <3> QED  BY <3>2, <3>3, <1>3
  <2>3. Cardinality(B) < Cardinality(A)
    BY <2>1, <2>2, Grows
  <2> QED  BY <2>3 DEF Place
<1> QED  BY <1>1, <1>2, <1>3

(* Rows that all come after those of S do not move the rows of S.          *)
LEMMA PlacesKept ==
  ASSUME NEW R \in SUBSET Transactions, NEW S \in SUBSET R,
         \A r \in R \ S : \A x \in S : x < r
  PROVE  /\ \A x \in S : Place(x, R) = Place(x, S)
         /\ \A r \in R \ S : Cardinality(S) <= Place(r, R)
<1>1. ASSUME NEW x \in S PROVE Place(x, R) = Place(x, S)
  <2>1. \A y \in R : y < x => y \in S
    <3>1. R \subseteq Int
      BY PagesAssumption DEF Transactions, PagesAssumption
    <3> QED  BY <3>1
  <2>2. {y \in R : y < x} = {y \in S : y < x}
    BY <2>1
  <2> QED  BY <2>2 DEF Place
<1>2. ASSUME NEW r \in R \ S PROVE Cardinality(S) <= Place(r, R)
  <2>1. {y \in R : y < r} \in SUBSET Transactions /\ S \in SUBSET {y \in R : y < r}
    OBVIOUS
  <2> QED  BY <2>1, Grows DEF Place
<1> QED  BY <1>1, <1>2

-----------------------------------------------------------------------------
(* The rows of a request, and those of its page.                           *)

LEMMA RowsAreTransactions ==
  ASSUME NEW q \in Readers, NEW L \in SUBSET Transactions
  PROVE  YearRows(q, L) \in SUBSET Transactions /\ YearRows(q, L) = RowsOf(Key(q), L)
  BY DEF YearRows, RowsOf, Key

LEMMA KeyType ==
  ASSUME PagesTypeOK, NEW q \in Readers PROVE Key(q) \in PageKeys /\ Key(q)[3] = reader[q].skip
  BY PagesAssumption DEF PagesTypeOK, Key, PageKeys, PagesAssumption

LEMMA PagesInitEstablishes == PagesInit => PagesInv
<1> SUFFICES ASSUME PagesInit PROVE PagesInv
  OBVIOUS
<1>1. PagesTypeOK
  BY PagesAssumption DEF PagesInit, PagesTypeOK, Idle, Steps, Dates, PagesAssumption
<1>2. PageInv
  BY DEF PagesInit, PageInv
<1>3. ASSUME NEW q \in Readers PROVE ReaderInv(q)
  BY DEF PagesInit, ReaderInv, CountInv, BasisInv, RowsInv, Active, Idle
<1> QED  BY <1>1, <1>2, <1>3 DEF PagesInv

(* A page that may be listed: of a snapshot, and within its rows.          *)
IsPage(q, page) ==
  LET n == Cardinality(YearRows(q, page.ledger)) IN
  /\ page \in Pages /\ IsSnapshot(page.ledger)
  /\ page.size = 0 => n <= reader[q].skip
  /\ page.size # 0 => reader[q].skip + page.size <= n

(* Unless the order is upset, the rows of a page are the first ones.       *)
LEMMA PageComesFirst ==
  ASSUME PagesTypeOK, NEW q \in Readers, NEW L \in SUBSET Transactions, IsSnapshot(L),
         YearRows(q, backdated \ (basis[q] \cap L)) = {}
  PROVE  /\ YearRows(q, L) \in SUBSET YearRows(q, ledger)
         /\ \A r \in YearRows(q, ledger) \ YearRows(q, L) : \A x \in YearRows(q, L) : x < r
<1>1. YearRows(q, L) \in SUBSET YearRows(q, ledger)
  BY DEF IsSnapshot, YearRows
<1>2. ASSUME NEW r \in YearRows(q, ledger) \ YearRows(q, L), NEW x \in YearRows(q, L) PROVE x < r
  <2>1. r \in ledger \ L /\ x \in L
    BY DEF YearRows
  <2>2. ~(r < x)
    BY <2>1 DEF IsSnapshot, YearRows
  <2>3. r \in Int /\ x \in Int /\ r # x
    BY <2>1, PagesAssumption DEF PagesTypeOK, Transactions, PagesAssumption
  <2> QED  BY <2>2, <2>3
<1> QED  BY <1>1, <1>2

(* What listing a page does. *)
LEMMA ListsMoves ==
  ASSUME PagesTypeOK, NEW q \in Readers, NEW page, IsPage(q, page), Lists(q, page)
  PROVE  LET R    == YearRows(q, page.ledger)
             skip == reader[q].skip + page.size
         IN /\ reader' \in [Readers -> [step : Steps, from : Dates, to : Dates, skip : 0 .. LastRow]]
            /\ \A p \in Readers : p # q =>
                 reader'[p] = reader[p] /\ listed'[p] = listed[p] /\ basis'[p] = basis[p]
            /\ reader'[q].skip = skip /\ reader'[q].from = reader[q].from /\ reader'[q].to = reader[q].to
            /\ reader'[q].step \in {"listing", "done"}
            /\ reader'[q].step = "done" => page.size = 0 \/ skip >= Cardinality(R)
            /\ basis'[q] = basis[q] \cap page.ledger /\ basis' \in [Readers -> SUBSET Transactions]
            /\ listed'[q] = [r \in Transactions |->
                 listed[q][r] + IF r \in RowsAfter(R, reader[q].skip, page.size) THEN 1 ELSE 0]
<1> DEFINE R    == YearRows(q, page.ledger)
           skip == reader[q].skip + page.size
           last == page.size = 0 \/ skip >= Cardinality(R)
           rec  == [reader[q] EXCEPT !.skip = skip, !.step = IF last THEN "done" ELSE "listing"]
           row  == [r \in Transactions |->
                      listed[q][r] + IF r \in RowsAfter(R, reader[q].skip, page.size) THEN 1 ELSE 0]
<1>1. page.ledger \in SUBSET Transactions /\ page.size \in Nat /\ reader[q].skip \in Nat
  BY PagesAssumption DEF IsPage, Pages, PagesTypeOK, PagesAssumption
<1>2. R \in SUBSET Transactions /\ Cardinality(R) \in Nat /\ Cardinality(R) <= LastRow
  BY <1>1, RowsAreTransactions, Finite
<1>3. skip \in 0 .. LastRow
  BY <1>1, <1>2, PagesAssumption DEF IsPage, PagesTypeOK, PagesAssumption
<1>4. /\ reader' = [reader EXCEPT ![q] = rec] /\ listed' = [listed EXCEPT ![q] = row]
      /\ basis' = [basis EXCEPT ![q] = basis[q] \cap page.ledger]
  BY DEF Lists, Advance
<1>5. /\ rec \in [step : Steps, from : Dates, to : Dates, skip : 0 .. LastRow]
      /\ rec.skip = skip /\ rec.from = reader[q].from /\ rec.to = reader[q].to
      /\ rec.step = IF last THEN "done" ELSE "listing"
  BY <1>3 DEF PagesTypeOK, Steps
<1> HIDE DEF rec, row, last, skip, R
<1>6. /\ reader' \in [Readers -> [step : Steps, from : Dates, to : Dates, skip : 0 .. LastRow]]
      /\ reader'[q] = rec /\ \A p \in Readers : p # q => reader'[p] = reader[p]
  BY <1>4, <1>5 DEF PagesTypeOK
<1>7. listed'[q] = row /\ \A p \in Readers : p # q => listed'[p] = listed[p]
  BY <1>4 DEF PagesTypeOK
<1>8. /\ basis' \in [Readers -> SUBSET Transactions] /\ basis'[q] = basis[q] \cap page.ledger
      /\ \A p \in Readers : p # q => basis'[p] = basis[p]
  BY <1>4 DEF PagesTypeOK
<1> QED  BY <1>5, <1>6, <1>7, <1>8 DEF rec, row, last, skip, R

(* Listing a page keeps the invariant of the request.                      *)
LEMMA ListsKeeps ==
  ASSUME PagesInv, NEW q \in Readers, NEW page, IsPage(q, page), reader[q].step = "listing",
         Lists(q, page), UNCHANGED <<ledger, backdated>>
  PROVE  ReaderInv(q)'
<1> DEFINE L    == page.ledger
           R    == YearRows(q, L)
           All  == YearRows(q, ledger)
           skip == reader[q].skip
           rows == RowsAfter(R, skip, page.size)
<1>1. /\ L \in SUBSET Transactions /\ L \subseteq ledger /\ ledger \in SUBSET Transactions
      /\ page.size \in Nat /\ skip \in Nat
  BY PagesAssumption DEF PagesInv, PagesTypeOK, IsPage, IsSnapshot, Pages, PagesAssumption
<1>2. /\ reader'[q].skip = skip + page.size /\ reader'[q].to = reader[q].to
      /\ reader'[q].step = "done" => page.size = 0 \/ skip + page.size >= Cardinality(R)
      /\ basis'[q] = basis[q] \cap L
      /\ listed'[q] = [r \in Transactions |-> listed[q][r] + IF r \in rows THEN 1 ELSE 0]
  BY ListsMoves DEF PagesInv
<1>3. /\ All \in SUBSET Transactions /\ R \in SUBSET All /\ R \in SUBSET Transactions
      /\ Cardinality(R) \in Nat /\ Cardinality(All) \in Nat /\ Cardinality(R) <= Cardinality(All)
  <2>1. R \in SUBSET All
    BY <1>1 DEF YearRows
  <2> QED  BY <2>1, <1>1, RowsAreTransactions, Grows, Finite
<1>4. \A r \in Transactions : Place(r, R) \in Nat /\ Place(r, All) \in Nat
  BY <1>3, Places
<1>5. /\ YearRows(q, ledger)' = All
      /\ YearRows(q, basis[q])' = YearRows(q, basis[q] \cap L)
      /\ Upset(q)' = (YearRows(q, backdated \ (basis[q] \cap L)) # {})
  BY <1>2 DEF YearRows, Upset
<1>6. ReaderInv(q) /\ Active(q) /\ listed[q] \in [Transactions -> 0 .. LastRow]
  BY DEF PagesInv, PagesTypeOK, Active
<1>7. /\ page.size = 0 => Cardinality(R) <= skip
      /\ page.size # 0 => skip + page.size <= Cardinality(R)
  BY DEF IsPage
<1> HIDE DEF L, R, All, skip
<1>8. ASSUME NEW r \in Transactions PROVE listed'[q][r] <= skip + page.size
  <2>1. listed[q][r] \in Nat /\ listed[q][r] <= skip
    BY <1>6, PagesAssumption DEF ReaderInv, CountInv, PagesAssumption, skip
  <2>2. r \in rows => page.size >= 1
    BY <1>1, <1>4 DEF RowsAfter
  <2> QED  BY <2>1, <2>2, <1>1, <1>2
<1>9. skip + page.size <= Cardinality(All)
  BY <1>1, <1>3, <1>6, <1>7 DEF ReaderInv, BasisInv, All, skip
<1>10. basis'[q] \subseteq ledger'
  BY <1>1, <1>2
<1>11. ASSUME ~Upset(q)'
       PROVE  /\ \A r \in Transactions :
                   listed'[q][r] = IF r \in Prefix(All, skip + page.size) THEN 1 ELSE 0
              /\ reader'[q].step = "done" =>
                   YearRows(q, basis[q] \cap L) \subseteq Prefix(All, skip + page.size)
  <2>1. \A r \in All \ R : \A x \in R : x < r
    BY <1>1, <1>5, <1>11, PageComesFirst DEF PagesInv, IsPage, L, R, All
  <2>2. /\ \A x \in R : Place(x, All) = Place(x, R)
        /\ \A r \in All \ R : Cardinality(R) <= Place(r, All)
    BY <1>3, <2>1, PlacesKept
  <2>3. ~Upset(q)
    BY <1>5, <1>11 DEF Upset, YearRows
  <2>4. ASSUME NEW r \in Transactions PROVE listed[q][r] = IF r \in Prefix(All, skip) THEN 1 ELSE 0
    BY <1>6, <2>3 DEF ReaderInv, RowsInv, SoFar, All, skip
  <2>5. ASSUME NEW r \in Transactions
        PROVE  r \in rows <=> r \in All /\ skip <= Place(r, All) /\ Place(r, All) < skip + page.size
    <3>1. CASE r \in R
      BY <3>1, <2>2, <1>3 DEF RowsAfter
    <3>2. CASE r \in All \ R
      <4>1. Cardinality(R) <= Place(r, All) /\ r \notin rows
        BY <3>2, <2>2 DEF RowsAfter
      <4> QED  BY <4>1, <1>1, <1>3, <1>4, <1>7
    <3>3. CASE r \notin All
      BY <3>3, <1>3 DEF RowsAfter
    <3> QED  BY <3>1, <3>2, <3>3
  <2>6. ASSUME NEW r \in Transactions
        PROVE  listed'[q][r] = IF r \in Prefix(All, skip + page.size) THEN 1 ELSE 0
    <3>1. /\ r \in Prefix(All, skip) <=> r \in All /\ Place(r, All) < skip
          /\ r \in Prefix(All, skip + page.size) <=> r \in All /\ Place(r, All) < skip + page.size
      BY DEF Prefix
    <3>2. r \in Prefix(All, skip + page.size) <=> r \in Prefix(All, skip) \/ r \in rows
      BY <3>1, <2>5, <1>1, <1>4
    <3>3. ~(r \in Prefix(All, skip) /\ r \in rows)
      BY <3>1, <2>5, <1>1, <1>4
    <3>4. listed'[q][r] = listed[q][r] + IF r \in rows THEN 1 ELSE 0
      BY <1>2
    <3> HIDE DEF rows
    <3> QED  BY <3>2, <3>3, <3>4, <2>4
  <2>7. ASSUME reader'[q].step = "done", NEW r \in YearRows(q, basis[q] \cap L)
        PROVE  r \in Prefix(All, skip + page.size)
    <3>1. r \in R
      BY DEF YearRows, R
    <3>2. Place(r, All) < Cardinality(R) /\ Cardinality(R) <= skip + page.size
      BY <3>1, <1>1, <1>2, <1>3, <1>7, <2>2, <2>7, Places
    <3> QED  BY <3>1, <3>2, <1>1, <1>3, <1>4 DEF Prefix
  <2> QED  BY <2>6, <2>7
<1>12. reader'[q].skip = skip + page.size
  BY <1>2
<1> HIDE DEF rows
<1>13. /\ SoFar(q)' = Prefix(All, skip + page.size)
       /\ Cardinality(YearRows(q, ledger))' = Cardinality(All)
  BY <1>5, <1>12 DEF SoFar, Prefix, Place
<1>14. CountInv(q)'
  BY <1>8, <1>12 DEF CountInv, Transactions
<1>15. BasisInv(q)'
  <2>1. (reader[q].skip <= Cardinality(YearRows(q, ledger)))'
    BY <1>5, <1>9, <1>12
  <2> QED  BY <2>1, <1>10 DEF BasisInv
<1>16. RowsInv(q)'
  BY <1>5, <1>11, <1>13 DEF RowsInv, Transactions
<1> QED  BY <1>14, <1>15, <1>16 DEF ReaderInv

(* A request keeps its invariant while nothing of it changes. *)
LEMMA OthersKeep ==
  ASSUME NEW p \in Readers, ReaderInv(p), UNCHANGED <<ledger, backdated>>,
         reader'[p] = reader[p], listed'[p] = listed[p], basis'[p] = basis[p]
  PROVE  ReaderInv(p)'
<1>1. /\ YearRows(p, ledger)' = YearRows(p, ledger)
      /\ YearRows(p, basis[p])' = YearRows(p, basis[p])
      /\ Upset(p)' = Upset(p)
  BY DEF YearRows, Upset
<1>2. SoFar(p)' = SoFar(p)
  BY <1>1 DEF SoFar, Prefix, Place
<1> QED  BY <1>1, <1>2 DEF ReaderInv, CountInv, BasisInv, RowsInv, Active

LEMMA SnapshotsKept == ASSUME UNCHANGED <<ledger, backdated>>, NEW L PROVE IsSnapshot(L)' <=> IsSnapshot(L)
  BY DEF IsSnapshot

LEMMA PagesKept == ASSUME PageInv, UNCHANGED <<ledger, backdated, pages>> PROVE PageInv'
<1>1. ASSUME NEW key \in PageKeys, pages[key] # NoDate
      PROVE  IsSnapshot(pages[key].ledger)'
  BY <1>1, SnapshotsKept DEF PageInv, IsSnapshot
<1> QED  BY <1>1 DEF PageInv, RowsOf

(* The steps of a request. *)
LEMMA SummariseKeeps ==
  ASSUME PagesInv, NEW q \in Readers, NEW start \in Dates \cup {NoDate},
         NEW end \in Dates \cup {NoDate}, Summarise(q, start, end)
  PROVE  PagesInv'
<1> DEFINE to   == WindowEnd(end)
           from == WindowStart(start, end)
           rec  == [step |-> IF from > to THEN "refused" ELSE "listing",
                    from |-> from, to |-> to, skip |-> 0]
<1>1. to \in Dates /\ from \in Dates
  BY PagesAssumption DEF WindowEnd, WindowStart, Monus, Dates, PagesAssumption
<1>2. rec \in [step : Steps, from : Dates, to : Dates, skip : 0 .. LastRow]
  BY <1>1, PagesAssumption DEF Steps, PagesAssumption
<1>3. reader' = [reader EXCEPT ![q] = rec]
  BY DEF Summarise
<1>4. rec.skip = 0 /\ rec.step \in {"refused", "listing"}
  OBVIOUS
<1> HIDE DEF rec, to, from
<1>5. reader'[q] = rec /\ \A p \in Readers : p # q => reader'[p] = reader[p]
  BY <1>3 DEF PagesInv, PagesTypeOK
<1>6. /\ listed'[q] = [r \in Transactions |-> 0] /\ basis'[q] = Transactions
      /\ \A p \in Readers : p # q => listed'[p] = listed[p] /\ basis'[p] = basis[p]
      /\ UNCHANGED <<ledger, backdated, pages>>
  BY DEF Summarise, PagesInv, PagesTypeOK
<1>7. PagesTypeOK'
  <2>1. reader' \in [Readers -> [step : Steps, from : Dates, to : Dates, skip : 0 .. LastRow]]
    BY <1>2, <1>3 DEF PagesInv, PagesTypeOK
  <2>2. /\ listed' \in [Readers -> [Transactions -> 0 .. LastRow]]
        /\ basis' \in [Readers -> SUBSET Transactions]
    BY PagesAssumption DEF Summarise, PagesInv, PagesTypeOK, PagesAssumption
  <2> QED  BY <2>1, <2>2, <1>6 DEF PagesInv, PagesTypeOK
<1>8. PageInv'
  BY <1>6, PagesKept DEF PagesInv
<1>9. ReaderInv(q)'
  <2>1. /\ Cardinality(YearRows(q, ledger))' \in Nat
        /\ \A r \in Transactions : Place(r, YearRows(q, ledger)') \in Nat
    <3>1. YearRows(q, ledger)' \in SUBSET Transactions
      BY <1>7 DEF PagesTypeOK, YearRows
    <3> QED  BY <3>1, Finite, Places
  <2>2. SoFar(q)' \cap Transactions = {}
    <3>1. ASSUME NEW r \in Transactions PROVE r \notin SoFar(q)'
      <4>1. Place(r, YearRows(q, ledger)') \in Nat
        BY <2>1
      <4>2. ~(Place(r, YearRows(q, ledger)') < 0)
        BY <4>1
      <4>3. SoFar(q)' = {x \in YearRows(q, ledger)' : Place(x, YearRows(q, ledger)') < 0}
        BY <1>4, <1>5 DEF SoFar, Prefix, Place
      <4> QED  BY <4>2, <4>3
    <3> QED  BY <3>1
  <2>3. CountInv(q)'
    BY <1>4, <1>5, <1>6 DEF CountInv, Transactions
  <2>4. BasisInv(q)'
    BY <1>4, <1>5, <1>6, <2>1 DEF BasisInv, Active
  <2>5. RowsInv(q)'
    BY <1>4, <1>5, <1>6, <2>2 DEF RowsInv, Active, Transactions
  <2> QED  BY <2>3, <2>4, <2>5 DEF ReaderInv
<1>10. ASSUME NEW p \in Readers, p # q PROVE ReaderInv(p)'
  BY <1>5, <1>6, <1>10, OthersKeep DEF PagesInv
<1> QED  BY <1>7, <1>8, <1>9, <1>10 DEF PagesInv

(* Whatever page is listed. *)
LEMMA ListingKeeps ==
  ASSUME PagesInv, NEW q \in Readers, NEW page, IsPage(q, page), reader[q].step = "listing",
         Lists(q, page), UNCHANGED <<ledger, backdated>>,
         PageInv', pages' \in [PageKeys -> Pages \cup {NoDate}]
  PROVE  PagesInv'
<1>1. /\ reader' \in [Readers -> [step : Steps, from : Dates, to : Dates, skip : 0 .. LastRow]]
      /\ \A p \in Readers : p # q =>
           reader'[p] = reader[p] /\ listed'[p] = listed[p] /\ basis'[p] = basis[p]
      /\ basis' \in [Readers -> SUBSET Transactions]
  BY ListsMoves DEF PagesInv
<1>2. ReaderInv(q)'
  BY ListsKeeps
<1>3. ASSUME NEW p \in Readers, p # q PROVE ReaderInv(p)'
  BY <1>1, <1>3, OthersKeep DEF PagesInv
<1>4. listed' \in [Readers -> [Transactions -> 0 .. LastRow]]
  <2> DEFINE row == [r \in Transactions |-> listed[q][r] +
                       IF r \in RowsAfter(YearRows(q, page.ledger), reader[q].skip, page.size)
                       THEN 1 ELSE 0]
  <2>1. listed'[q] = row /\ listed' = [listed EXCEPT ![q] = row]
    BY DEF Lists, PagesInv, PagesTypeOK
  <2>2. ASSUME NEW r \in Transactions PROVE row[r] \in 0 .. LastRow
    <3>1. listed'[q][r] <= reader'[q].skip
      BY <1>2 DEF ReaderInv, CountInv, Transactions
    <3>2. reader'[q].skip \in 0 .. LastRow
      BY <1>1
    <3>3. listed[q][r] \in Nat
      BY PagesAssumption DEF PagesInv, PagesTypeOK, PagesAssumption
    <3>4. row[r] \in Nat
      BY <3>3
    <3> HIDE DEF row
    <3> QED  BY <3>1, <3>2, <3>4, <2>1, PagesAssumption DEF PagesAssumption
  <2>3. row \in [Transactions -> 0 .. LastRow]
    BY <2>2
  <2> QED  BY <2>1, <2>3 DEF PagesInv, PagesTypeOK
<1>5. PagesTypeOK'
  BY <1>1, <1>4 DEF PagesInv, PagesTypeOK
<1> QED  BY <1>2, <1>3, <1>5 DEF PagesInv

LEMMA PageHitKeeps ==
  ASSUME PagesInv, NEW q \in Readers, PageHit(q) PROVE PagesInv'
<1> DEFINE page == pages[Key(q)]
<1>1. Key(q) \in PageKeys /\ Key(q)[3] = reader[q].skip /\ page # NoDate
  BY KeyType DEF PagesInv, PageHit
<1>2. page \in Pages
  BY <1>1 DEF PagesInv, PagesTypeOK
<1>3. YearRows(q, page.ledger) = RowsOf(Key(q), page.ledger)
  BY <1>2, RowsAreTransactions DEF Pages
<1>4. LET n == Cardinality(RowsOf(Key(q), page.ledger)) IN
      /\ IsSnapshot(page.ledger)
      /\ page.size = 0 => n <= Key(q)[3]
      /\ page.size # 0 => Key(q)[3] + page.size <= n
  BY <1>1 DEF PagesInv, PageInv
<1> HIDE DEF page
<1>5. IsPage(q, page)
  BY <1>1, <1>2, <1>3, <1>4 DEF IsPage
<1>6. PageInv' /\ pages' \in [PageKeys -> Pages \cup {NoDate}]
  BY PagesKept DEF PagesInv, PagesTypeOK, PageHit
<1> QED  BY <1>5, <1>6, ListingKeeps DEF PageHit, page

LEMMA PageFetchedKeeps ==
  ASSUME PagesInv, NEW q \in Readers, PageFetched(q) PROVE PagesInv'
<1> DEFINE n == Cardinality(YearRows(q, ledger))
<1>1. ledger \in SUBSET Transactions /\ n \in Nat /\ reader[q].skip \in Nat
  <2>1. ledger \in SUBSET Transactions /\ reader[q].skip \in Nat
    BY PagesAssumption DEF PagesInv, PagesTypeOK, PagesAssumption
  <2> QED  BY <2>1, RowsAreTransactions, Finite
<1>2. /\ Key(q) \in PageKeys /\ Key(q)[3] = reader[q].skip
      /\ YearRows(q, ledger) = RowsOf(Key(q), ledger)
  BY <1>1, KeyType, RowsAreTransactions DEF PagesInv
<1> HIDE DEF n
<1>3. PICK size \in 0 .. PageSize :
        /\ size <= Monus(n, reader[q].skip) /\ (size = 0 => Monus(n, reader[q].skip) = 0)
        /\ pages' = [pages EXCEPT ![Key(q)] = [size |-> size, ledger |-> ledger]]
        /\ Lists(q, [size |-> size, ledger |-> ledger])
  BY DEF PageFetched, n
<1> DEFINE page == [size |-> size, ledger |-> ledger]
<1>4. page \in Pages /\ page.size = size /\ page.ledger = ledger
  BY <1>1 DEF Pages
<1>5. IsSnapshot(ledger)
  BY DEF IsSnapshot
<1>6. (size = 0 => n <= reader[q].skip) /\ (size # 0 => reader[q].skip + size <= n)
  BY <1>1, <1>3, PagesAssumption DEF Monus, PagesAssumption
<1> HIDE DEF page
<1>7. IsPage(q, page)
  BY <1>4, <1>5, <1>6 DEF IsPage, n
<1>8. UNCHANGED <<ledger, backdated>> /\ reader[q].step = "listing"
  BY DEF PageFetched
<1>9. pages' = [pages EXCEPT ![Key(q)] = page]
  BY <1>3 DEF page
<1>10. pages' \in [PageKeys -> Pages \cup {NoDate}]
  BY <1>4, <1>9 DEF PagesInv, PagesTypeOK
<1>11. PageInv'
  <2>1. ASSUME NEW key \in PageKeys, pages'[key] # NoDate
        PROVE  LET m == Cardinality(RowsOf(key, pages'[key].ledger)) IN
               /\ IsSnapshot(pages'[key].ledger)
               /\ pages'[key].size = 0 => m <= key[3]
               /\ pages'[key].size # 0 => key[3] + pages'[key].size <= m
    <3>1. CASE key = Key(q)
      <4>1. pages'[key] = page
        BY <3>1, <1>2, <1>9 DEF PagesInv, PagesTypeOK
      <4> QED  BY <4>1, <3>1, <1>2, <1>4, <1>5, <1>6 DEF n
    <3>2. CASE key # Key(q)
      <4>1. pages'[key] = pages[key]
        BY <3>2, <1>9 DEF PagesInv, PagesTypeOK
      <4> QED  BY <4>1, <2>1 DEF PagesInv, PageInv
    <3> QED  BY <3>1, <3>2
  <2>2. ASSUME NEW L PROVE IsSnapshot(L)' <=> IsSnapshot(L)
    BY <1>8, SnapshotsKept
  <2> QED  BY <2>1, <2>2, <1>8 DEF PageInv, RowsOf, IsSnapshot
<1>12. Lists(q, page)
  BY <1>3 DEF page
<1> QED  BY <1>7, <1>8, <1>10, <1>11, <1>12, ListingKeeps

LEMMA PageFailsKeeps ==
  ASSUME PagesInv, NEW q \in Readers, PageFails(q) PROVE PagesInv'
<1> DEFINE rec == [reader[q] EXCEPT !.step = "refused"]
<1>1. rec \in [step : Steps, from : Dates, to : Dates, skip : 0 .. LastRow]
      /\ rec.skip = reader[q].skip /\ rec.step = "refused"
  BY DEF PagesInv, PagesTypeOK, Steps
<1>2. reader' = [reader EXCEPT ![q] = rec] /\ UNCHANGED <<ledger, backdated, listed, basis>>
  BY DEF PageFails
<1> HIDE DEF rec
<1>3. reader'[q] = rec /\ \A p \in Readers : p # q => reader'[p] = reader[p]
  BY <1>2 DEF PagesInv, PagesTypeOK
<1>4. PagesTypeOK'
  <2>1. reader' \in [Readers -> [step : Steps, from : Dates, to : Dates, skip : 0 .. LastRow]]
    BY <1>1, <1>2 DEF PagesInv, PagesTypeOK
  <2>2. pages' \in [PageKeys -> Pages \cup {NoDate}]
    BY DEF PageFails, PagesInv, PagesTypeOK
  <2> QED  BY <2>1, <2>2, <1>2 DEF PagesInv, PagesTypeOK
<1>5. PageInv'
  <2>1. ASSUME NEW key \in PageKeys, pages'[key] # NoDate PROVE pages'[key] = pages[key]
    BY <2>1 DEF PageFails, PagesInv, PagesTypeOK
  <2>2. ASSUME NEW L PROVE IsSnapshot(L)' <=> IsSnapshot(L)
    BY <1>2, SnapshotsKept
  <2> QED  BY <2>1, <2>2, <1>2 DEF PagesInv, PageInv, RowsOf, IsSnapshot
<1>6. ReaderInv(q)'
  BY <1>1, <1>2, <1>3 DEF PagesInv, ReaderInv, CountInv, BasisInv, RowsInv, Active, Transactions
<1>7. ASSUME NEW p \in Readers, p # q PROVE ReaderInv(p)'
  BY <1>2, <1>3, <1>7, OthersKeep DEF PagesInv
<1> QED  BY <1>4, <1>5, <1>6, <1>7 DEF PagesInv

(* A transaction that is booked behind one of a snapshot is backdated. *)
LEMMA BookedSnapshots ==
  ASSUME NEW r \in Transactions, Book(r), NEW L, IsSnapshot(L)
  PROVE  L \subseteq ledger' /\ \A s \in ledger' \ L : \A x \in L : s < x => s \in backdated'
<1>1. ledger' = ledger \cup {r} /\ backdated \subseteq backdated'
      /\ ((\E x \in ledger : x > r) => r \in backdated')
  BY DEF Book
<1>2. ASSUME NEW s \in ledger' \ L, NEW x \in L, s < x PROVE s \in backdated'
  <2>1. CASE s \in ledger
    BY <2>1, <1>1, <1>2 DEF IsSnapshot
  <2>2. CASE s = r
    <3>1. x \in ledger
      BY DEF IsSnapshot
    <3>2. x > r
      BY <2>2, <1>2
    <3> QED  BY <3>1, <3>2, <2>2, <1>1
  <2> QED  BY <2>1, <2>2, <1>1
<1> QED  BY <1>1, <1>2 DEF IsSnapshot

(* Booking keeps the invariant of a request: a row that does not upset the *)
(* order of its rows comes after them.                                     *)
LEMMA BookKeepsReader ==
  ASSUME PagesInv, NEW r \in Transactions, Book(r), NEW q \in Readers
  PROVE  ReaderInv(q)'
<1> DEFINE All  == YearRows(q, ledger)
           All2 == YearRows(q, ledger \cup {r})
           skip == reader[q].skip
<1>1. /\ r \notin ledger /\ ledger' = ledger \cup {r} /\ backdated \subseteq backdated'
      /\ ((\E x \in ledger : x > r) => r \in backdated')
      /\ UNCHANGED <<pages, reader, listed, basis>>
  BY DEF Book
<1>2. /\ YearRows(q, ledger)' = All2
      /\ YearRows(q, basis[q])' = YearRows(q, basis[q])
      /\ SoFar(q)' = Prefix(All2, skip)
      /\ SoFar(q) = Prefix(All, skip)
  BY <1>1 DEF YearRows, SoFar, Prefix, Place
<1>3. /\ All2 \in SUBSET Transactions /\ All \in SUBSET All2
      /\ All2 = All \/ (All2 = All \cup {r} /\ r \in All2 /\ r \notin All)
  BY <1>1 DEF PagesInv, PagesTypeOK, YearRows
<1>4. /\ Cardinality(All) \in Nat /\ Cardinality(All2) \in Nat
      /\ Cardinality(All) <= Cardinality(All2) /\ skip \in Nat
  <2>1. skip \in Nat
    BY PagesAssumption DEF PagesInv, PagesTypeOK, PagesAssumption
  <2> HIDE DEF All, All2, skip
  <2> QED  BY <2>1, <1>3, Finite, Grows
<1>5. ReaderInv(q)
  BY DEF PagesInv
<1>6. ASSUME ~Upset(q)' PROVE ~Upset(q)
  BY <1>1, <1>6 DEF Upset, YearRows
<1>7. ASSUME Active(q), ~Upset(q)' PROVE Prefix(All2, skip) = Prefix(All, skip)
  <2>1. CASE All2 = All
    BY <2>1
  <2>2. CASE skip = 0
    <3>1. /\ \A x \in All2 : Place(x, All2) \in Nat
          /\ \A x \in All : Place(x, All) \in Nat
      BY <1>3, Places
    <3>2. \A n \in Nat : ~(n < 0)
      OBVIOUS
    <3>3. Prefix(All2, skip) = {} /\ Prefix(All, skip) = {}
      BY <2>2, <3>1, <3>2 DEF Prefix
    <3> QED  BY <3>3
  <2>3. CASE All2 = All \cup {r} /\ r \in All2 /\ r \notin All /\ basis[q] \subseteq ledger
    <3>1. r \notin basis[q]
      BY <2>3, <1>1
    <3>2. r \notin backdated'
      BY <3>1, <2>3, <1>1, <1>7 DEF Upset, YearRows
    <3>3. \A x \in ledger : ~(x > r)
      BY <3>2, <1>1
    <3>4. \A x \in All : x \in Int /\ x # r /\ r \in Int /\ ~(x > r)
      BY <3>3, <1>1, <1>3, PagesAssumption DEF Transactions, PagesAssumption, YearRows
    <3> HIDE DEF All, All2, skip
    <3>5. \A y \in All2 \ All : \A x \in All : x < y
      <4>1. ASSUME NEW x \in All PROVE x < r
        BY <3>4
      <4>2. \A y \in All2 \ All : y = r
        BY <2>3
      <4> QED  BY <4>1, <4>2
    <3>6. /\ \A x \in All : Place(x, All2) = Place(x, All)
          /\ \A y \in All2 \ All : Cardinality(All) <= Place(y, All2)
      BY <3>5, <1>3, PlacesKept
    <3>7. skip <= Cardinality(All)
      BY <1>5, <1>7 DEF ReaderInv, BasisInv, All, skip
    <3>8. Place(r, All2) \in Nat /\ ~(Place(r, All2) < skip)
      <4>1. r \in All2 \ All
        BY <2>3
      <4>2. Place(r, All2) \in Nat
        BY <1>3, Places
      <4>3. Cardinality(All) <= Place(r, All2)
        BY <4>1, <3>6
      <4> QED  BY <4>2, <4>3, <3>7, <1>4
    <3> QED  BY <3>6, <3>8, <2>3 DEF Prefix
  <2>4. basis[q] \subseteq ledger \/ skip = 0
    BY <1>5, <1>7 DEF ReaderInv, BasisInv
  <2> QED  BY <2>1, <2>2, <2>3, <2>4, <1>3
<1> HIDE DEF All, All2, skip
<1>8. CountInv(q)'
  BY <1>1, <1>5 DEF ReaderInv, CountInv, Transactions
<1>9. BasisInv(q)'
  <2>1. (reader[q].skip <= Cardinality(YearRows(q, ledger)))' <=> skip <= Cardinality(All2)
    BY <1>1, <1>2 DEF skip
  <2> QED  BY <2>1, <1>1, <1>4, <1>5 DEF ReaderInv, BasisInv, Active, skip, All
<1>10. RowsInv(q)'
  BY <1>1, <1>2, <1>5, <1>6, <1>7 DEF ReaderInv, RowsInv, Active, Transactions
<1> QED  BY <1>8, <1>9, <1>10 DEF ReaderInv

LEMMA BookKeeps ==
  ASSUME PagesInv, NEW r \in Transactions, Book(r) PROVE PagesInv'
<1>1. PagesTypeOK'
  <2>1. backdated' \subseteq ledger' /\ ledger' \subseteq Transactions
    BY DEF Book, PagesInv, PagesTypeOK
  <2> QED  BY <2>1 DEF Book, PagesInv, PagesTypeOK
<1>2. PageInv'
  <2>1. pages' = pages
    BY DEF Book
  <2>2. ASSUME NEW key \in PageKeys, pages[key] # NoDate PROVE IsSnapshot(pages[key].ledger)'
    <3>1. IsSnapshot(pages[key].ledger)
      BY <2>2 DEF PagesInv, PageInv
    <3> QED  BY <3>1, <2>1, BookedSnapshots DEF IsSnapshot
  <2> QED  BY <2>1, <2>2 DEF PagesInv, PageInv, RowsOf
<1> QED  BY <1>1, <1>2, BookKeepsReader DEF PagesInv

LEMMA PagesNextPreserves == PagesInv /\ [PagesNext]_pageVars => PagesInv'
<1> SUFFICES ASSUME PagesInv, [PagesNext]_pageVars PROVE PagesInv'
  OBVIOUS
<1>1. ASSUME NEW q \in Readers, NEW start \in Dates \cup {NoDate},
             NEW end \in Dates \cup {NoDate}, Summarise(q, start, end)
      PROVE  PagesInv'
  BY <1>1, SummariseKeeps
<1>2. ASSUME NEW q \in Readers, PageHit(q) PROVE PagesInv'
  BY <1>2, PageHitKeeps
<1>3. ASSUME NEW q \in Readers, PageFetched(q) PROVE PagesInv'
  BY <1>3, PageFetchedKeeps
<1>4. ASSUME NEW q \in Readers, PageFails(q) PROVE PagesInv'
  BY <1>4, PageFailsKeeps
<1>5. ASSUME NEW r \in Transactions, Book(r) PROVE PagesInv'
  BY <1>5, BookKeeps
<1>6. CASE UNCHANGED pageVars
  <2>1. UNCHANGED <<ledger, backdated, pages, reader, listed, basis>>
    BY <1>6 DEF pageVars
  <2>2. PagesTypeOK' /\ PageInv'
    BY <2>1, PagesKept DEF PagesInv, PagesTypeOK
  <2>3. ASSUME NEW p \in Readers PROVE ReaderInv(p)'
    BY <2>1, OthersKeep DEF PagesInv
  <2> QED  BY <2>2, <2>3 DEF PagesInv
<1> QED  BY <1>1, <1>2, <1>3, <1>4, <1>5, <1>6 DEF PagesNext

-----------------------------------------------------------------------------
(* The invariant holds in every state of the specification: what the pages *)
(* in the cache are, and that the rows of a request so far are those of    *)
(* the ledger before skip, however the pages and the bookings interleave.  *)
THEOREM PagesInvariance == PagesSpec => []PagesInv
<1> QED  BY PagesInitEstablishes, PagesNextPreserves, PTL DEF PagesSpec

(* list_transaction_rows never counts past the ledger: the state is well   *)
(* typed, so a request's skip and its counts stay within LastRow.          *)
THEOREM PagesTypesHold == PagesSpec => []PagesTypeOK
<1>1. PagesInv => PagesTypeOK
  BY DEF PagesInv
<1> QED  BY <1>1, PagesInvariance, PTL

(* The rows of a summary are each counted once, begin with the first, and  *)
(* miss none that the oldest page knew of, unless a transaction was booked *)
(* behind one of that page.                                                *)
THEOREM LedgerListed == PagesSpec => []LedgerIsListedOnce
<1>1. ASSUME PagesInv PROVE LedgerIsListedOnce
  <2> SUFFICES ASSUME NEW q \in Readers, reader[q].step = "done", ~Upset(q)
               PROVE  /\ \A r \in Transactions : listed[q][r] <= 1
                      /\ \A r \in YearRows(q, basis[q]) : listed[q][r] = 1
                      /\ \A r, x \in YearRows(q, ledger) :
                           x < r /\ listed[q][r] = 1 => listed[q][x] = 1
    BY DEF LedgerIsListedOnce
  <2>1. /\ \A r \in Transactions : listed[q][r] = IF r \in SoFar(q) THEN 1 ELSE 0
        /\ YearRows(q, basis[q]) \subseteq SoFar(q)
    BY <1>1 DEF PagesInv, ReaderInv, RowsInv, Active
  <2>2. YearRows(q, basis[q]) \subseteq Transactions
    BY <1>1 DEF PagesInv, PagesTypeOK, YearRows
  <2>3. ledger \in SUBSET Transactions /\ YearRows(q, ledger) \in SUBSET Transactions
    BY <1>1 DEF PagesInv, PagesTypeOK, YearRows
  <2>4. ASSUME NEW r \in YearRows(q, ledger), NEW x \in YearRows(q, ledger),
               x < r, listed[q][r] = 1
        PROVE  listed[q][x] = 1
    <3>1. r \in SoFar(q)
      BY <2>1, <2>3, <2>4
    <3>2. Place(x, YearRows(q, ledger)) < Place(r, YearRows(q, ledger))
      BY <2>3, <2>4, Places
    <3>3. /\ Place(x, YearRows(q, ledger)) \in Nat /\ Place(r, YearRows(q, ledger)) \in Nat
          /\ reader[q].skip \in Nat
      <4>1. reader[q].skip \in Nat
        BY <1>1, PagesAssumption DEF PagesInv, PagesTypeOK, PagesAssumption
      <4>2. x \in Transactions /\ r \in Transactions
        BY <2>3
      <4> QED  BY <4>1, <4>2, <2>3, Places
    <3>4. x \in SoFar(q)
      BY <3>1, <3>2, <3>3 DEF SoFar, Prefix
    <3> QED  BY <3>4, <2>1, <2>3
  <2> QED  BY <2>1, <2>2, <2>4
<1> QED  BY <1>1, PagesInvariance, PTL

-----------------------------------------------------------------------------
(* The discussion pack.                                                    *)

(* A proposal that the source has recorded at an instant of this attempt:  *)
(* what was settled in it is held, what it excuses is noted, and if no     *)
(* transition followed it is still what is recorded.                       *)
Steady == excuses = {} /\ turns = attempt

Seen(p) ==
  /\ p \in Proposals /\ InOrder(p.ledger) /\ Lawful(p)
  /\ Settled(p, requested) \subseteq held
  /\ Reasons(p, requested) \subseteq excuses
  /\ Steady => p.life = proposal.life /\ p.ledger = proposal.ledger /\ p.version = proposal.version

(* An answer is of a proposal that was seen, or it is a noted fault.       *)
PartInv(q) ==
  reads[q] # Nothing =>
    \/ Ok(q) /\ \E p \in Proposals : Seen(p) /\ reads[q].view = View(q, p)
    \/ reads[q].status = "malformed" /\ "malformed" \in excuses
    \/ reads[q].status = "unread" /\ (q = "approvals" => "unreadable" \in excuses)

(* While the parts are read: a second attempt is only made after a         *)
(* transition of the source, or for a reason that is noted.                *)
ReadingInv ==
  phase = "reading" =>
    /\ requested \in Versions
    /\ Seen(proposal)
    /\ excuses = {} => turns >= attempt
    /\ \A q \in Parts : PartInv(q)

PackInv ==
  /\ TypeOK
  /\ InOrder(proposal.ledger) /\ Lawful(proposal)
  /\ reads = [p \in Parts |-> reads[p]]
  /\ turns <= moves
  /\ phase = "idle" => attempt = 0
  /\ phase # "done" => outcome.kind = "none"
  /\ ReadingInv
  /\ NoFalseReassurance /\ ExecutionIsConsented /\ OneTransitionIsAbsorbed

-----------------------------------------------------------------------------
LEMMA LastIndex ==
  ASSUME NEW n \in Nat, NEW T, T \subseteq 1 .. n, T # {}
  PROVE  \E i \in T : \A j \in T : j <= i
<1> DEFINE R == {n - i : i \in T}
<1>1. R \subseteq Nat /\ R # {}
  <2>1. \A i \in T : i \in Int /\ i <= n
    OBVIOUS
  <2>2. \A i \in T : n - i \in Nat
    BY <2>1
  <2> QED  BY <2>2
<1>2. \E x \in R : \A y \in R : ~ (<<y, x>> \in OpToRel(<, Nat))
  BY <1>1, WFMin, NatLessThanWellFounded
<1>3. PICK x \in R : \A y \in R : ~ (y < x)
  BY <1>2, <1>1 DEF OpToRel
<1>4. PICK i \in T : x = n - i
  BY <1>3
<1>5. ASSUME NEW j \in T PROVE j <= i
  <2>1. n - j \in R /\ ~ (n - j < n - i)
    BY <1>3, <1>4
  <2>2. i \in Int /\ j \in Int
    OBVIOUS
  <2> HIDE DEF R
  <2> QED  BY <2>1, <2>2
<1> QED  BY <1>5

(* The last of the entries of a ledger with a given version.               *)
LEMMA LastOfVersion ==
  ASSUME NEW L \in Seq(Consents), InOrder(L), NEW v, \E i \in DOMAIN L : L[i].rel = v
  PROVE  \E i \in DOMAIN L :
           /\ L[i].rel = v
           /\ \A j \in DOMAIN L : j > i => L[j].rel # v
           /\ \A j \in DOMAIN L : L[j].rel = v => L[j].at <= L[i].at
<1> DEFINE T == {i \in DOMAIN L : L[i].rel = v}
<1>1. Len(L) \in Nat /\ DOMAIN L = 1 .. Len(L)
  OBVIOUS
<1>2. PICK i \in T : \A j \in T : j <= i
  BY <1>1, LastIndex
<1>3. \A j \in T : L[j].at <= L[i].at
  BY <1>2 DEF InOrder
<1>4. \A j \in DOMAIN L : j > i => j \notin T
  BY <1>1, <1>2
<1> QED  BY <1>2, <1>3, <1>4

-----------------------------------------------------------------------------
(* What is read in the ledger of a proposal that was seen.                 *)

ReadsLedgerOf(p) ==
  /\ p \in Proposals /\ InOrder(p.ledger) /\ p.version = requested
  /\ requested \in Versions
  /\ Ok("approvals") /\ reads["approvals"].view.ledger = ToSet(p.ledger)

LEMMA CurrentOf ==
  ASSUME NEW p, ReadsLedgerOf(p)
  PROVE  /\ p.ledger \in Seq(Consents)
         /\ \A i \in DOMAIN p.ledger : p.ledger[i] \in Consents
         /\ Current = {p.ledger[i] : i \in {j \in DOMAIN p.ledger : p.ledger[j].rel = requested}}
         /\ Uncorrelated = {p.ledger[i] : i \in {j \in DOMAIN p.ledger : p.ledger[j].rel = Nothing}}
         /\ \A r \in Current \cup Uncorrelated : r.at \in Nat /\ r.approved \in BOOLEAN
<1>1. p.ledger \in Seq(Consents)
  BY DEF ReadsLedgerOf, Proposals
<1>2. \A i \in DOMAIN p.ledger : p.ledger[i] \in Consents
  BY <1>1
<1>3. \A r \in Consents : r.at \in Nat /\ r.approved \in BOOLEAN
  BY DEF Consents
<1>4. reads["approvals"].view.ledger = {p.ledger[i] : i \in DOMAIN p.ledger}
  BY DEF ReadsLedgerOf, ToSet
<1>5. /\ Current = {p.ledger[i] : i \in {j \in DOMAIN p.ledger : p.ledger[j].rel = requested}}
      /\ Uncorrelated = {p.ledger[i] : i \in {j \in DOMAIN p.ledger : p.ledger[j].rel = Nothing}}
  BY <1>4 DEF Current, Uncorrelated
<1> QED  BY <1>1, <1>2, <1>3, <1>5

(* What is shown as approved is approved: were there another decision as   *)
(* late, the two would be tied.                                            *)
LEMMA ShownIsApproved ==
  ASSUME NEW p, ReadsLedgerOf(p), ~Tied, Consent.decision = "approved"
  PROVE  LastApproved(p)
<1>1. Current # {} /\ (\A u \in Uncorrelated : ~AsLate(u)) /\ \E r \in LatestRecords : r.approved
  BY DEF Consent
<1>2. PICK r \in LatestRecords : r.approved
  BY <1>1
<1>3. PICK i \in DOMAIN p.ledger :
        /\ p.ledger[i].rel = requested
        /\ \A j \in DOMAIN p.ledger : j > i => p.ledger[j].rel # requested
        /\ \A j \in DOMAIN p.ledger : p.ledger[j].rel = requested => p.ledger[j].at <= p.ledger[i].at
  <2>1. \E i \in DOMAIN p.ledger : p.ledger[i].rel = requested
    BY <1>1, CurrentOf
  <2>2. p.ledger \in Seq(Consents) /\ InOrder(p.ledger)
    BY CurrentOf DEF ReadsLedgerOf
  <2> QED  BY <2>1, <2>2, LastOfVersion
<1>4. p.ledger[i] \in LatestRecords
  BY <1>3, CurrentOf DEF LatestRecords
<1>5. p.ledger[i].approved
  <2>1. {x.approved : x \in LatestRecords} # BOOLEAN
    BY <1>1 DEF Tied, ReadsLedgerOf
  <2>2. \A x \in LatestRecords : x.approved \in BOOLEAN
    BY CurrentOf DEF LatestRecords
  <2> QED  BY <2>1, <2>2, <1>2, <1>4
<1> QED  BY <1>3, <1>5 DEF LastApproved, ReadsLedgerOf

(* What is approved is shown as approved, when the ledger is clear.        *)
LEMMA ApprovedIsShown ==
  ASSUME NEW p, ReadsLedgerOf(p), LastApproved(p), ~Unclear(p)
  PROVE  Consent = [state |-> "supported", decision |-> "approved"]
<1>1. PICK i \in DOMAIN p.ledger :
        /\ p.ledger[i].rel = p.version /\ p.ledger[i].approved
        /\ \A j \in DOMAIN p.ledger : j > i => p.ledger[j].rel # p.version
  BY DEF LastApproved
<1>2. Uncorrelated = {}
  BY CurrentOf DEF Unclear
<1>3. \A j \in DOMAIN p.ledger : p.ledger[j].rel = requested => p.ledger[j].at <= p.ledger[i].at
  <2> SUFFICES ASSUME NEW j \in DOMAIN p.ledger, p.ledger[j].rel = requested
               PROVE  p.ledger[j].at <= p.ledger[i].at
    OBVIOUS
  <2>1. DOMAIN p.ledger = 1 .. Len(p.ledger) /\ Len(p.ledger) \in Nat
    BY CurrentOf
  <2>2. j <= i
    BY <2>1, <1>1 DEF ReadsLedgerOf
  <2> QED  BY <2>2 DEF ReadsLedgerOf, InOrder
<1>4. p.ledger[i] \in LatestRecords
  BY <1>1, <1>3, CurrentOf DEF LatestRecords, ReadsLedgerOf
<1>5. Current # {}
  BY <1>4 DEF LatestRecords
<1> QED  BY <1>1, <1>2, <1>4, <1>5 DEF Consent, ReadsLedgerOf

(* Two decisions at the latest instant make a ledger unclear.              *)
LEMMA TiedIsUnclear ==
  ASSUME NEW p, ReadsLedgerOf(p), Tied PROVE Unclear(p)
<1>1. {x.approved : x \in LatestRecords} = BOOLEAN
  BY DEF Tied
<1>2. PICK x \in LatestRecords, y \in LatestRecords : x.approved /\ ~ y.approved
  <2>1. TRUE \in {x.approved : x \in LatestRecords} /\ FALSE \in {x.approved : x \in LatestRecords}
    BY <1>1
  <2> QED  BY <2>1
<1>3. x \in Current /\ y \in Current /\ x.at <= y.at /\ y.at <= x.at
  BY DEF LatestRecords
<1>4. x.at = y.at
  BY <1>3, CurrentOf
<1>5. PICK i \in DOMAIN p.ledger, j \in DOMAIN p.ledger : p.ledger[i] = x /\ p.ledger[j] = y
  BY <1>3, CurrentOf
<1> QED  BY <1>2, <1>4, <1>5 DEF Unclear

-----------------------------------------------------------------------------
(* The answers.                                                            *)

LEMMA ViewFields ==
  ASSUME NEW p
  PROVE  /\ View("detail", p).life = p.life
         /\ \A c \in Reviewed : View(c, p).settled = p.reviewed[c]
         /\ View("approvals", p).ledger = ToSet(p.ledger)
         /\ View("delivery", p).package = p.package
         /\ \A q \in Parts : View(q, p).version = p.version
<1>1. View("detail", p).life = p.life
  BY DEF View, Reviewed
<1>2. \A c \in Reviewed : View(c, p).settled = p.reviewed[c]
  BY DEF View, Reviewed
<1>3. View("approvals", p).ledger = ToSet(p.ledger)
  BY DEF View, Reviewed
<1>4. View("delivery", p).package = p.package
  BY DEF View, Reviewed
<1>5. \A q \in Parts : View(q, p).version = p.version
  BY DEF View, Parts, Reviewed
<1> QED  BY <1>1, <1>2, <1>3, <1>4, <1>5

(* A valid answer is of the requested version of a proposal that was seen. *)
LEMMA ValidAnswer ==
  ASSUME PackInv, AllRead, NEW q \in Parts, Ok(q), ~Refused(q)
  PROVE  \E p \in Proposals : Seen(p) /\ p.version = requested /\ reads[q].view = View(q, p)
<1>1. PartInv(q) /\ reads[q] # Nothing
  BY DEF PackInv, ReadingInv, AllRead
<1>2. PICK p \in Proposals : Seen(p) /\ reads[q].view = View(q, p)
  BY <1>1 DEF PartInv, Ok
<1>3. p.version = requested
  BY <1>2, ViewFields DEF Refused
<1> QED  BY <1>2, <1>3

(* Of the ledger, a proposal whose ledger it is.                           *)
LEMMA ValidLedger ==
  ASSUME PackInv, AllRead, Ok("approvals"), ~Refused("approvals")
  PROVE  \E p \in Proposals : Seen(p) /\ ReadsLedgerOf(p)
<1>1. "approvals" \in Parts
  BY DEF Parts
<1>2. PICK p \in Proposals : Seen(p) /\ p.version = requested /\ reads["approvals"].view = View("approvals", p)
  BY <1>1, ValidAnswer
<1>3. reads["approvals"].view.ledger = ToSet(p.ledger)
  BY <1>2, ViewFields
<1>4. requested \in Versions
  BY DEF PackInv, ReadingInv, AllRead
<1> QED  BY <1>2, <1>3, <1>4 DEF ReadsLedgerOf, Seen

(* An answer that is refused, or a tie, is excused.                        *)
LEMMA InvalidIsExcused ==
  ASSUME PackInv, AllRead, ~Valid PROVE excuses # {}
<1>1. ASSUME NEW q \in Parts, Refused(q) PROVE excuses # {}
  <2>1. PartInv(q) /\ reads[q] # Nothing
    BY DEF PackInv, ReadingInv, AllRead
  <2>2. CASE reads[q].status = "malformed"
    BY <2>1, <2>2 DEF PartInv, Ok
  <2>3. CASE Ok(q) /\ reads[q].view.version # requested
    <3>1. PICK p \in Proposals : Seen(p) /\ reads[q].view = View(q, p)
      BY <2>1, <2>3 DEF PartInv, Ok
    <3>2. p.version # requested
      BY <3>1, <2>3, ViewFields
    <3>3. "version" \in Reasons(p, requested)
      BY <3>2 DEF Reasons
    <3> QED  BY <3>1, <3>3 DEF Seen
  <2> QED  BY <1>1, <2>2, <2>3 DEF Refused
<1>2. ASSUME Tied, ~Refused("approvals") PROVE excuses # {}
  <2>1. PICK p \in Proposals : Seen(p) /\ ReadsLedgerOf(p)
    BY <1>2, ValidLedger DEF Tied
  <2>2. "ledger" \in Reasons(p, requested)
    BY <2>1, <1>2, TiedIsUnclear DEF Reasons
  <2> QED  BY <2>1, <2>2 DEF Seen
<1>3. "approvals" \in Parts
  BY DEF Parts
<1> QED  BY <1>1, <1>2, <1>3 DEF Valid

(* Answers that are valid, and that nothing excuses, contradict each other *)
(* only when the source turned during this attempt: otherwise detail and   *)
(* ledger are those of the proposal as it is, and that is lawful.          *)
LEMMA ConflictTurns ==
  ASSUME PackInv, Detailed, Valid, Conflict, excuses = {} PROVE turns > attempt
<1>1. AllRead /\ "detail" \in Parts /\ "approvals" \in Parts
  BY DEF Detailed, Parts
<1>2. turns \in Nat /\ attempt \in Nat /\ turns >= attempt
  BY <1>1 DEF PackInv, TypeOK, ReadingInv, AllRead
<1>3. Ok("detail") /\ Ok("approvals")
  <2>1. PartInv("detail") /\ PartInv("approvals") /\ reads["detail"] # Nothing /\ reads["approvals"] # Nothing
    BY <1>1 DEF PackInv, ReadingInv, AllRead
  <2> QED  BY <2>1, <1>1 DEF PartInv, Detailed, Ok
<1>4. PICK d \in Proposals : Seen(d) /\ d.version = requested /\ reads["detail"].view = View("detail", d)
  BY <1>1, <1>3, ValidAnswer DEF Valid
<1>5. PICK p \in Proposals : Seen(p) /\ ReadsLedgerOf(p)
  BY <1>1, <1>3, ValidLedger DEF Valid
<1>6. reads["detail"].view.life = d.life
  BY <1>4, ViewFields
<1>7. ~Unclear(p)
  BY <1>5 DEF Seen, Reasons
<1>8. CASE turns = attempt
  <2>1. d.life = p.life
    BY <1>4, <1>5, <1>8 DEF Seen, Steady
  <2>2. Lawful(p)
    BY <1>5 DEF Seen
  <2>3. CASE LastApproved(p)
    <3>1. Consent = [state |-> "supported", decision |-> "approved"]
      BY <1>5, <1>7, <2>3, ApprovedIsShown
    <3>2. p.life # "awaiting_consent"
      BY <2>2, <2>3 DEF Lawful
    <3> QED  BY <3>1, <3>2, <2>1, <1>6 DEF Conflict
  <2>4. CASE ~LastApproved(p)
    <3>1. Consent.decision # "approved"
      BY <1>5, <2>4, ShownIsApproved DEF Valid
    <3>2. p.life \notin Executable
      BY <2>2, <2>4 DEF Lawful
    <3> QED  BY <3>1, <3>2, <2>1, <1>6 DEF Conflict
  <2> QED  BY <2>3, <2>4
<1> QED  BY <1>2, <1>8

(* What is shown as settled is held.                                       *)
LEMMA ShownIsHeld ==
  ASSUME PackInv, AllRead, Valid PROVE ShownSettled \subseteq held
<1>1. ASSUME NEW c \in Reviewed, Ok(c), reads[c].view.settled PROVE c \in held
  <2>1. c \in Parts
    BY DEF Reviewed, Parts
  <2>2. PICK p \in Proposals : Seen(p) /\ p.version = requested /\ reads[c].view = View(c, p)
    BY <2>1, <1>1, ValidAnswer DEF Valid
  <2>3. p.reviewed[c]
    BY <2>2, <1>1, ViewFields
  <2>4. c \in Settled(p, requested)
    BY <2>2, <2>3 DEF Settled
  <2> QED  BY <2>2, <2>4 DEF Seen
<1>2. ASSUME Package.state = "supported", Package.status = "available" PROVE "package" \in held
  <2>1. "delivery" \in Parts /\ Ok("delivery")
    BY <1>2 DEF Package, Parts
  <2>2. PICK p \in Proposals : Seen(p) /\ p.version = requested /\ reads["delivery"].view = View("delivery", p)
    BY <2>1, ValidAnswer DEF Valid
  <2>3. reads["delivery"].view.package = p.package
    BY <2>2, ViewFields
  <2>4. p.package # Nothing /\ p.package.rel = requested /\ p.package.status = "available"
    BY <2>1, <2>3, <1>2 DEF Package
  <2>5. "package" \in Settled(p, requested)
    BY <2>2, <2>4 DEF Settled
  <2> QED  BY <2>2, <2>5 DEF Seen
<1>3. ASSUME Consent.decision = "approved" PROVE "consent" \in held
  <2>1. "approvals" \in Parts /\ Ok("approvals")
    BY <1>3 DEF Consent, Parts
  <2>2. PICK p \in Proposals : Seen(p) /\ ReadsLedgerOf(p)
    BY <2>1, ValidLedger DEF Valid
  <2>3. LastApproved(p)
    BY <2>2, <1>3, ShownIsApproved DEF Valid
  <2>4. "consent" \in Settled(p, requested)
    BY <2>2, <2>3 DEF Settled, ReadsLedgerOf
  <2> QED  BY <2>2, <2>4 DEF Seen
<1> QED  BY <1>1, <1>2, <1>3 DEF ShownSettled

-----------------------------------------------------------------------------
(* The steps.                                                              *)

LEMMA SettledAndReasons ==
  ASSUME NEW p, NEW v
  PROVE  /\ Settled(p, v) \subseteq Controls
         /\ Reasons(p, v) \subseteq {"version", "ledger", "malformed", "unreadable"}
  BY DEF Settled, Reasons, Controls, Reviewed

(* What was seen stays so in the same attempt.                             *)
Goes ==
  /\ requested' = requested
  /\ held \subseteq held' /\ excuses \subseteq excuses'
  /\ Steady' => Steady /\ proposal'.life = proposal.life /\ proposal'.ledger = proposal.ledger
                       /\ proposal'.version = proposal.version

LEMMA SeenKept ==
  ASSUME Goes, NEW p, Seen(p) PROVE Seen(p)'
<1>1. Settled(p, requested') \subseteq held' /\ Reasons(p, requested') \subseteq excuses'
  BY DEF Goes, Seen
<1>2. Steady' => p.life = proposal'.life /\ p.ledger = proposal'.ledger /\ p.version = proposal'.version
  BY DEF Goes, Seen
<1> QED  BY <1>1, <1>2 DEF Seen

LEMMA PartKept ==
  ASSUME Goes, NEW q, reads'[q] = reads[q], PartInv(q) PROVE PartInv(q)'
<1> SUFFICES ASSUME reads[q] # Nothing
             PROVE  \/ Ok(q)' /\ \E p \in Proposals : Seen(p)' /\ reads'[q].view = View(q, p)
                    \/ reads'[q].status = "malformed" /\ "malformed" \in excuses'
                    \/ reads'[q].status = "unread" /\ (q = "approvals" => "unreadable" \in excuses')
  BY DEF PartInv
<1>1. CASE Ok(q) /\ \E p \in Proposals : Seen(p) /\ reads[q].view = View(q, p)
  <2>1. PICK p \in Proposals : Seen(p) /\ reads[q].view = View(q, p)
    BY <1>1
  <2>2. Seen(p)'
    BY <2>1, SeenKept
  <2> QED  BY <1>1, <2>1, <2>2 DEF Ok
<1>2. CASE reads[q].status = "malformed" /\ "malformed" \in excuses
  BY <1>2 DEF Goes
<1>3. CASE reads[q].status = "unread" /\ (q = "approvals" => "unreadable" \in excuses)
  BY <1>3 DEF Goes
<1> QED  BY <1>1, <1>2, <1>3 DEF PartInv

LEMMA PackInit == Init => PackInv
<1> SUFFICES ASSUME Init PROVE PackInv
  OBVIOUS
<1>1. proposal \in Proposals /\ InOrder(proposal.ledger) /\ Lawful(proposal)
  BY PackAssumption DEF Init, PackAssumption
<1>2. TypeOK
  BY <1>1, PackAssumption DEF Init, TypeOK, PackAssumption, Kinds
<1> QED
  BY <1>1, <1>2 DEF Init, PackInv, ReadingInv, NoFalseReassurance, ExecutionIsConsented, OneTransitionIsAbsorbed

(* The outcome is of no kind yet.                                          *)
LEMMA NoOutcome ==
  ASSUME outcome.kind = "none"
  PROVE  NoFalseReassurance /\ ExecutionIsConsented /\ OneTransitionIsAbsorbed
  BY DEF NoFalseReassurance, ExecutionIsConsented, OneTransitionIsAbsorbed

LEMMA BeginKeeps ==
  ASSUME PackInv, NEW v \in Versions, Begin(v) PROVE PackInv'
<1>1. TypeOK'
  <2>1. held' \subseteq Controls /\ excuses' \subseteq {"version", "ledger", "malformed", "unreadable"}
    BY SettledAndReasons DEF Begin
  <2>2. \A q \in Parts : reads'[q] = Nothing
    BY DEF Begin, NoReads
  <2>3. /\ proposal' \in Proposals /\ requested' \in Versions /\ phase' = "reading"
        /\ attempt' \in {0, 1} /\ moves' \in 0 .. MaxMoves /\ faults' \in 0 .. MaxFaults
        /\ turns' \in 0 .. MaxMoves /\ outcome' = outcome
    BY DEF Begin, PackInv, TypeOK
  <2>4. outcome'.kind = "none"
    BY <2>3 DEF PackInv, Begin
  <2> QED  BY <2>1, <2>2, <2>3, <2>4 DEF TypeOK, Kinds
<1>2. Seen(proposal)'
  BY DEF Begin, PackInv, TypeOK, Seen
<1>3. attempt' = 0 /\ turns' \in Nat
  BY <1>1 DEF Begin, PackInv, TypeOK
<1>4. \A q \in Parts : PartInv(q)'
  BY DEF Begin, NoReads, PartInv
<1>5. ReadingInv'
  BY <1>2, <1>3, <1>4 DEF ReadingInv, Begin
<1>6. outcome'.kind = "none"
  BY DEF Begin, PackInv
<1>7. (NoFalseReassurance /\ ExecutionIsConsented /\ OneTransitionIsAbsorbed)'
  BY <1>6 DEF NoFalseReassurance, ExecutionIsConsented, OneTransitionIsAbsorbed
<1>8. reads' = [p \in Parts |-> reads'[p]]
  BY DEF Begin, NoReads
<1> QED  BY <1>1, <1>5, <1>6, <1>7, <1>8, <1>3 DEF PackInv, Begin

LEMMA AnswerKeeps ==
  ASSUME PackInv, NEW p \in Parts, Answer(p) PROVE PackInv'
<1>1. /\ phase = "reading" /\ proposal \in Proposals /\ Seen(proposal)
      /\ UNCHANGED <<proposal, requested, phase, attempt, outcome, moves, held, turns>>
  BY DEF Answer, PackInv, TypeOK, ReadingInv
<1>2. excuses \subseteq excuses' /\ excuses' \subseteq {"version", "ledger", "malformed", "unreadable"}
  BY DEF Answer, PackInv, TypeOK
<1>3. Goes
  BY <1>1, <1>2 DEF Goes, Steady
<1>4. /\ reads' = [q \in Parts |-> reads'[q]]
      /\ \A q \in Parts : q # p => reads'[q] = reads[q]
  BY DEF Answer, PackInv
<1>5. PartInv(p)' /\ (reads'[p].status \in Statuses /\ (Ok(p)' => reads'[p].view.version \in Versions))
  <2>1. CASE reads' = [reads EXCEPT ![p] = [status |-> "ok", view |-> View(p, proposal)]]
    <3>1. reads'[p] = [status |-> "ok", view |-> View(p, proposal)]
      BY <2>1 DEF PackInv
    <3>2. PICK found \in Proposals : found = proposal
      BY <1>1
    <3>3. Seen(found)'
      BY <1>1, <1>3, <3>2, SeenKept
    <3>4. View(p, found).version \in Versions
      BY ViewFields DEF Proposals
    <3> QED  BY <3>1, <3>2, <3>3, <3>4 DEF PartInv, Ok, Statuses
  <2>2. CASE \E status \in Faults :
               /\ reads' = [reads EXCEPT ![p] = [status |-> status, view |-> Nothing]]
               /\ excuses' = excuses \cup (IF status = "malformed" THEN {"malformed"}
                                           ELSE IF p = "approvals" THEN {"unreadable"} ELSE {})
    <3>1. PICK status \in Faults :
            /\ reads'[p] = [status |-> status, view |-> Nothing]
            /\ excuses' = excuses \cup (IF status = "malformed" THEN {"malformed"}
                                        ELSE IF p = "approvals" THEN {"unreadable"} ELSE {})
      BY <2>2 DEF PackInv
    <3> QED  BY <3>1 DEF PartInv, Ok, Statuses, Faults
  <2> QED  BY <2>1, <2>2 DEF Answer
<1>6. ASSUME NEW q \in Parts PROVE PartInv(q)'
  BY <1>1, <1>3, <1>4, <1>5, PartKept DEF PackInv, ReadingInv
<1>7. Seen(proposal)'
  <2>1. PICK found \in Proposals : found = proposal
    BY <1>1
  <2>2. Seen(found)'
    BY <1>1, <1>3, <2>1, SeenKept
  <2> QED  BY <1>1, <2>1, <2>2 DEF Seen
<1>8. ReadingInv'
  BY <1>1, <1>2, <1>6, <1>7 DEF ReadingInv, PackInv
<1>9. faults' \in 0 .. MaxFaults
  <2>1. faults \in Nat /\ faults <= MaxFaults
    BY PackAssumption DEF PackInv, TypeOK, PackAssumption
  <2> QED  BY <2>1, PackAssumption DEF Answer, PackInv, TypeOK, PackAssumption
<1>10. \A q \in Parts : reads'[q] # Nothing =>
         reads'[q].status \in Statuses /\ (Ok(q)' => reads'[q].view.version \in Versions)
  BY <1>4, <1>5 DEF PackInv, TypeOK, Ok
<1>11. TypeOK'
  BY <1>1, <1>2, <1>9, <1>10 DEF TypeOK, PackInv
<1>12. outcome'.kind = "none"
  BY <1>1 DEF PackInv
<1>13. (NoFalseReassurance /\ ExecutionIsConsented /\ OneTransitionIsAbsorbed)'
  BY <1>12 DEF NoFalseReassurance, ExecutionIsConsented, OneTransitionIsAbsorbed
<1> QED  BY <1>1, <1>4, <1>8, <1>11, <1>12, <1>13 DEF PackInv

(* A move of the source to p: what was settled and what it excuses is      *)
(* noted, and either a transition is counted or lifecycle, consents and    *)
(* version are as they were.                                               *)
LEMMA MoveKeeps ==
  ASSUME PackInv, NEW p \in Proposals, MovesTo(p), InOrder(p.ledger),
         \/ turns' = turns + 1
         \/ /\ turns' = turns
            /\ p.life = proposal.life /\ p.ledger = proposal.ledger /\ p.version = proposal.version
  PROVE  PackInv'
<1>1. /\ phase = "reading" /\ moves < MaxMoves /\ moves' = moves + 1 /\ proposal' = p /\ Lawful(p)
      /\ held' = held \cup Settled(p, requested) /\ excuses' = excuses \cup Reasons(p, requested)
      /\ UNCHANGED <<requested, phase, attempt, reads, outcome, faults>>
  BY DEF MovesTo
<1>2. turns \in Nat /\ moves \in Nat /\ MaxMoves \in Nat /\ attempt \in Nat /\ turns <= moves
  BY PackAssumption DEF PackInv, TypeOK, PackAssumption
<1>3. turns' \in 0 .. MaxMoves /\ moves' \in 0 .. MaxMoves /\ turns' <= moves'
  BY <1>1, <1>2
<1>4. TypeOK'
  <2>1. held' \subseteq Controls /\ excuses' \subseteq {"version", "ledger", "malformed", "unreadable"}
    BY <1>1, SettledAndReasons DEF PackInv, TypeOK
  <2> QED  BY <1>1, <1>3, <2>1 DEF PackInv, TypeOK, Ok
<1>5. excuses = {} => turns >= attempt
  BY <1>1 DEF PackInv, ReadingInv
<1>6. excuses' = {} => turns' >= attempt'
  BY <1>1, <1>2, <1>5
<1>7. Goes
  <2>1. Steady' => Steady /\ turns' = turns
    BY <1>1, <1>2, <1>5 DEF Steady
  <2>2. turns' # turns + 1 \/ turns' # turns
    BY <1>2
  <2>3. Steady' => p.life = proposal.life /\ p.ledger = proposal.ledger /\ p.version = proposal.version
    BY <2>1, <2>2
  <2> QED  BY <1>1, <2>1, <2>3 DEF Goes
<1>8. \A q \in Parts : PartInv(q)'
  BY <1>1, <1>7, PartKept DEF PackInv, ReadingInv
<1>9. Seen(p)'
  <2>1. Settled(p, requested') \subseteq held' /\ Reasons(p, requested') \subseteq excuses'
    BY <1>1
  <2>2. p.life = proposal'.life /\ p.ledger = proposal'.ledger /\ p.version = proposal'.version
    BY <1>1
  <2> QED  BY <1>1, <2>1, <2>2 DEF Seen
<1>10. Seen(proposal)'
  BY <1>1, <1>9 DEF Seen
<1>11. ReadingInv'
  BY <1>1, <1>6, <1>8, <1>10 DEF PackInv, ReadingInv
<1>12. outcome'.kind = "none"
  BY <1>1 DEF PackInv
<1>13. (NoFalseReassurance /\ ExecutionIsConsented /\ OneTransitionIsAbsorbed)'
  BY <1>12 DEF NoFalseReassurance, ExecutionIsConsented, OneTransitionIsAbsorbed
<1> QED  BY <1>1, <1>3, <1>4, <1>11, <1>12, <1>13 DEF PackInv

(* A consent is recorded last.                                             *)
LEMMA AppendedInOrder ==
  ASSUME NEW p \in Proposals, InOrder(p.ledger), NEW r \in Consents, r.at >= LastAt(p)
  PROVE  Append(p.ledger, r) \in Seq(Consents) /\ InOrder(Append(p.ledger, r))
<1> DEFINE L == p.ledger  M == Append(p.ledger, r)
<1>1. L \in Seq(Consents)
  BY DEF Proposals
<1>2. /\ M \in Seq(Consents) /\ Len(L) \in Nat /\ DOMAIN L = 1 .. Len(L) /\ DOMAIN M = 1 .. Len(L) + 1
      /\ \A i \in 1 .. Len(L) : M[i] = L[i] /\ L[i] \in Consents
      /\ M[Len(L) + 1] = r
  BY <1>1
<1>3. \A i \in DOMAIN M : M[i].at \in Nat
  BY <1>2 DEF Consents
<1>4. ASSUME NEW i \in 1 .. Len(L) PROVE L[i].at <= r.at
  <2>1. L # <<>> /\ Len(L) \in DOMAIN L /\ i <= Len(L)
    BY <1>1, <1>2, <1>4
  <2>2. LastAt(p) = L[Len(L)].at
    BY <2>1 DEF LastAt, Last
  <2>3. L[i].at <= L[Len(L)].at
    BY <2>1, <1>2, <1>4 DEF InOrder
  <2>4. L[i].at \in Nat /\ L[Len(L)].at \in Nat /\ r.at \in Nat
    BY <1>2, <2>1, <1>4 DEF Consents
  <2> QED  BY <2>2, <2>3, <2>4
<1>5. ASSUME NEW i \in DOMAIN M, NEW j \in DOMAIN M, i <= j PROVE M[i].at <= M[j].at
  <2>1. CASE j \in 1 .. Len(L)
    BY <1>2, <1>5, <2>1 DEF InOrder
  <2>2. CASE j = Len(L) + 1
    <3>1. CASE i \in 1 .. Len(L)
      BY <1>2, <1>4, <2>2, <3>1
    <3>2. CASE i = Len(L) + 1
      BY <1>2, <1>3, <2>2, <3>2
    <3> QED  BY <1>2, <3>1, <3>2
  <2> QED  BY <1>2, <2>1, <2>2
<1> QED  BY <1>2, <1>5 DEF InOrder

LEMMA SourceKeeps ==
  ASSUME PackInv, RecordConsent \/ Progress \/ NewVersion \/ Review \/ Report PROVE PackInv'
<1>1. /\ proposal \in Proposals /\ InOrder(proposal.ledger)
      /\ proposal.version \in Versions /\ proposal.life \in Lives /\ proposal.ledger \in Seq(Consents)
      /\ proposal.reviewed \in [Reviewed -> BOOLEAN] /\ proposal.package \in Packages \cup {Nothing}
  BY DEF PackInv, TypeOK, Proposals
<1>2. CASE RecordConsent
  <2>1. PICK rel \in {proposal.version, Nothing}, approved \in BOOLEAN, later \in {0, 1}, life \in Lives :
          /\ MovesTo([proposal EXCEPT !.life = life,
                        !.ledger = Append(@, [rel |-> rel, approved |-> approved,
                                              at |-> LastAt(proposal) + later])])
          /\ turns' = turns + 1
    BY <1>2 DEF RecordConsent
  <2> DEFINE r == [rel |-> rel, approved |-> approved, at |-> LastAt(proposal) + later]
             p == [proposal EXCEPT !.life = life, !.ledger = Append(@, r)]
  <2>2. LastAt(proposal) \in Nat
    <3>1. CASE proposal.ledger = <<>>
      BY <3>1 DEF LastAt
    <3>2. CASE proposal.ledger # <<>>
      <4>1. Last(proposal.ledger) \in Consents
        BY <1>1, <3>2 DEF Last
      <4> QED  BY <4>1, <3>2 DEF LastAt, Consents
    <3> QED  BY <3>1, <3>2
  <2>3. r \in Consents /\ r.at >= LastAt(proposal)
    BY <1>1, <2>2 DEF Consents
  <2>4. Append(proposal.ledger, r) \in Seq(Consents) /\ InOrder(Append(proposal.ledger, r))
    BY <1>1, <2>3, AppendedInOrder
  <2>5. p \in Proposals /\ p.ledger = Append(proposal.ledger, r)
    BY <1>1, <2>4 DEF Proposals
  <2>6. MovesTo(p) /\ turns' = turns + 1
    BY <2>1
  <2> HIDE DEF p
  <2> QED  BY <2>4, <2>5, <2>6, MoveKeeps
<1>3. CASE Progress
  <2>1. PICK life \in Lives : MovesTo([proposal EXCEPT !.life = life]) /\ turns' = turns + 1
    BY <1>3 DEF Progress
  <2> DEFINE p == [proposal EXCEPT !.life = life]
  <2>2. p \in Proposals /\ p.ledger = proposal.ledger
    BY <1>1 DEF Proposals
  <2>3. MovesTo(p) /\ turns' = turns + 1
    BY <2>1
  <2> HIDE DEF p
  <2> QED  BY <1>1, <2>2, <2>3, MoveKeeps
<1>4. CASE NewVersion
  <2> DEFINE p == [proposal EXCEPT !.version = @ + 1, !.life = "preparing",
                                   !.reviewed = [c \in Reviewed |-> FALSE]]
  <2>1. MovesTo(p) /\ turns' = turns + 1 /\ proposal.version < MaxVersion
    BY <1>4 DEF NewVersion
  <2>2. proposal.version + 1 \in Versions
    BY <1>1, <2>1, PackAssumption DEF Versions, PackAssumption
  <2>3. p \in Proposals /\ p.ledger = proposal.ledger
    BY <1>1, <2>2 DEF Proposals, Lives
  <2> HIDE DEF p
  <2> QED  BY <1>1, <2>1, <2>3, MoveKeeps
<1>5. CASE Review
  <2>1. PICK c \in Reviewed : MovesTo([proposal EXCEPT !.reviewed[c] = ~@]) /\ turns' = turns
    BY <1>5 DEF Review
  <2> DEFINE p == [proposal EXCEPT !.reviewed[c] = ~@]
  <2>2. p \in Proposals /\ p.life = proposal.life /\ p.ledger = proposal.ledger /\ p.version = proposal.version
    BY <1>1 DEF Proposals
  <2>3. MovesTo(p)
    BY <2>1
  <2> HIDE DEF p
  <2> QED  BY <1>1, <2>1, <2>2, <2>3, MoveKeeps
<1>6. CASE Report
  <2>1. PICK package \in Packages : MovesTo([proposal EXCEPT !.package = package]) /\ turns' = turns
    BY <1>6 DEF Report
  <2> DEFINE p == [proposal EXCEPT !.package = package]
  <2>2. p \in Proposals /\ p.life = proposal.life /\ p.ledger = proposal.ledger /\ p.version = proposal.version
    BY <1>1 DEF Proposals
  <2>3. MovesTo(p)
    BY <2>1
  <2> HIDE DEF p
  <2> QED  BY <1>1, <2>1, <2>2, <2>3, MoveKeeps
<1> QED  BY <1>2, <1>3, <1>4, <1>5, <1>6

(* The call ends, with a result that is as it must be.                     *)
LEMMA EndKeeps ==
  ASSUME PackInv, phase = "reading", NEW result, Ends(result), result.kind \in Kinds,
         result.kind = "pack" =>
           /\ result.life \in Lives /\ result.settled \subseteq held
           /\ ~result.attention => result.settled = Controls
           /\ result.life \in Executable => result.consent = "approved" /\ "consent" \in result.settled,
         result.kind = "contract_invalid" /\ excuses = {} => turns >= 2
  PROVE  PackInv'
<1>1. /\ outcome' = result /\ phase' = "done"
      /\ UNCHANGED <<proposal, requested, attempt, moves, faults, held, turns, excuses>>
  BY DEF Ends
<1>2. reads' = [p \in Parts |-> reads'[p]] /\ \A p \in Parts : reads'[p] = Nothing
  BY DEF Ends, NoReads
<1>3. TypeOK'
  BY <1>1, <1>2 DEF PackInv, TypeOK
<1>4. ReadingInv'
  BY <1>1 DEF ReadingInv
<1>5. NoFalseReassurance'
  <2>1. held \subseteq Controls
    BY DEF PackInv, TypeOK
  <2> QED  BY <1>1, <2>1 DEF NoFalseReassurance
<1>6. ExecutionIsConsented'
  BY <1>1 DEF ExecutionIsConsented
<1>7. OneTransitionIsAbsorbed'
  BY <1>1 DEF OneTransitionIsAbsorbed
<1> QED  BY <1>1, <1>2, <1>3, <1>4, <1>5, <1>6, <1>7 DEF PackInv

LEMMA RetryKeeps ==
  ASSUME PackInv, Retry PROVE PackInv'
<1>1. /\ phase = "reading" /\ attempt = 0 /\ attempt' = 1 /\ reads' = NoReads
      /\ held' = Settled(proposal, requested)
      /\ UNCHANGED <<proposal, requested, phase, outcome, moves, faults, turns, excuses>>
  BY DEF Retry, Detailed, AllRead
<1>2. turns \in Nat /\ (excuses = {} => turns > 0)
  BY <1>1, ConflictTurns DEF Retry, PackInv, TypeOK
<1>3. reads' = [p \in Parts |-> reads'[p]] /\ \A p \in Parts : reads'[p] = Nothing
  BY <1>1 DEF NoReads
<1>4. TypeOK'
  BY <1>1, <1>3, SettledAndReasons DEF PackInv, TypeOK
<1>5. Seen(proposal)'
  <2>1. Seen(proposal)
    BY <1>1 DEF PackInv, ReadingInv
  <2> QED  BY <1>1, <2>1 DEF Seen
<1>6. \A q \in Parts : PartInv(q)'
  BY <1>3 DEF PartInv
<1>7. excuses' = {} => turns' >= attempt'
  BY <1>1, <1>2
<1>8. ReadingInv'
  BY <1>1, <1>5, <1>6, <1>7 DEF PackInv, ReadingInv
<1>9. outcome'.kind = "none"
  BY <1>1 DEF PackInv
<1>10. (NoFalseReassurance /\ ExecutionIsConsented /\ OneTransitionIsAbsorbed)'
  BY <1>9 DEF NoFalseReassurance, ExecutionIsConsented, OneTransitionIsAbsorbed
<1> QED  BY <1>1, <1>3, <1>4, <1>8, <1>9, <1>10 DEF PackInv

LEMMA ReturnKeeps ==
  ASSUME PackInv, Return PROVE PackInv'
<1>1. AllRead /\ Detailed /\ Valid /\ ~Conflict /\ phase = "reading"
  BY DEF Return, Detailed, AllRead
<1> DEFINE pack == [kind     |-> "pack",
                    life     |-> reads["detail"].view.life,
                    consent  |-> Consent.decision,
                    settled  |-> ShownSettled,
                    attention |-> ShownSettled # Controls]
<1>2. Ends(pack)
  BY DEF Return
<1>3. ShownSettled \subseteq held
  BY <1>1, ShownIsHeld
<1>4. reads["detail"].view.life \in Lives
  <2>1. "detail" \in Parts /\ Ok("detail") /\ ~Refused("detail")
    BY <1>1 DEF Detailed, Valid, Refused, Ok, Parts
  <2>2. PICK d \in Proposals : reads["detail"].view = View("detail", d)
    BY <1>1, <2>1, ValidAnswer
  <2> QED  BY <2>2, ViewFields DEF Proposals
<1>5. reads["detail"].view.life \in Executable => Consent.decision = "approved"
  BY <1>1 DEF Conflict
<1>6. Consent.decision = "approved" => "consent" \in ShownSettled
  BY DEF ShownSettled
<1>7. /\ pack.kind = "pack" /\ pack.life \in Lives /\ pack.settled \subseteq held
      /\ ~pack.attention => pack.settled = Controls
      /\ pack.life \in Executable => pack.consent = "approved" /\ "consent" \in pack.settled
  BY <1>3, <1>4, <1>5, <1>6
<1> HIDE DEF pack
<1> QED  BY <1>1, <1>2, <1>7, EndKeeps DEF Kinds

LEMMA RefusalKeeps ==
  ASSUME PackInv, RaiseUpstreamError \/ RaiseContractInvalid \/ GiveUp \/ Cancel PROVE PackInv'
<1>1. CASE RaiseUpstreamError
  <2>1. phase = "reading" /\ Ends([kind |-> "upstream_error"])
    BY <1>1 DEF RaiseUpstreamError, AllRead
  <2> QED  BY <2>1, EndKeeps DEF Kinds
<1>2. CASE RaiseContractInvalid
  <2>1. phase = "reading" /\ Ends([kind |-> "contract_invalid"])
    BY <1>2 DEF RaiseContractInvalid, Detailed, AllRead
  <2>2. excuses # {}
    BY <1>2, InvalidIsExcused DEF RaiseContractInvalid, Detailed
  <2> QED  BY <2>1, <2>2, EndKeeps DEF Kinds
<1>3. CASE GiveUp
  <2>1. phase = "reading" /\ Ends([kind |-> "contract_invalid"]) /\ attempt = 1
    BY <1>3 DEF GiveUp, Detailed, AllRead
  <2>2. excuses = {} => turns > attempt
    BY <1>3, ConflictTurns DEF GiveUp
  <2>3. excuses = {} => turns >= 2
    BY <2>1, <2>2 DEF PackInv, TypeOK
  <2> QED  BY <2>1, <2>3, EndKeeps DEF Kinds
<1>4. CASE Cancel
  <2>1. phase = "reading" /\ Ends([kind |-> "cancelled"])
    BY <1>4 DEF Cancel
  <2> QED  BY <2>1, EndKeeps DEF Kinds
<1> QED  BY <1>1, <1>2, <1>3, <1>4

LEMMA PackRests ==
  ASSUME PackInv, UNCHANGED vars PROVE PackInv'
<1>1. /\ UNCHANGED <<proposal, requested, phase, attempt>> /\ UNCHANGED <<reads, outcome, moves>>
      /\ UNCHANGED <<faults, held, turns, excuses>>
  BY DEF vars
<1>2. TypeOK'
  BY <1>1 DEF PackInv, TypeOK, Ok
<1>3. Goes
  BY <1>1 DEF Goes, Steady
<1>4. ReadingInv'
  <2>1. ASSUME phase = "reading", NEW q \in Parts PROVE PartInv(q)'
    BY <1>1, <1>3, <2>1, PartKept DEF PackInv, ReadingInv
  <2>2. ASSUME phase = "reading" PROVE Seen(proposal)'
    <3>1. Seen(proposal)
      BY <2>2 DEF PackInv, ReadingInv
    <3> QED  BY <1>1, <3>1 DEF Seen, Steady
  <2> QED  BY <1>1, <2>1, <2>2 DEF PackInv, ReadingInv
<1>5. (NoFalseReassurance /\ ExecutionIsConsented /\ OneTransitionIsAbsorbed)'
  BY <1>1 DEF PackInv, NoFalseReassurance, ExecutionIsConsented, OneTransitionIsAbsorbed
<1> QED  BY <1>1, <1>2, <1>4, <1>5 DEF PackInv

(* The reads of a pack, at every instant of every call, are of proposals   *)
(* that were seen, and what they are made into holds.                      *)
THEOREM PackInvariance == Spec => []PackInv
<1>1. Init => PackInv
  BY PackInit
<1>2. ASSUME PackInv, [Next]_vars PROVE PackInv'
  <2>1. ASSUME NEW v \in Versions, Begin(v) PROVE PackInv'
    BY <1>2, <2>1, BeginKeeps
  <2>2. ASSUME NEW p \in Parts, Answer(p) PROVE PackInv'
    BY <1>2, <2>2, AnswerKeeps
  <2>3. CASE Retry
    BY <1>2, <2>3, RetryKeeps
  <2>4. CASE Return
    BY <1>2, <2>4, ReturnKeeps
  <2>5. CASE RaiseUpstreamError \/ RaiseContractInvalid \/ GiveUp \/ Cancel
    BY <1>2, <2>5, RefusalKeeps
  <2>6. CASE RecordConsent \/ Progress \/ NewVersion \/ Review \/ Report
    BY <1>2, <2>6, SourceKeeps
  <2>7. CASE UNCHANGED vars
    BY <1>2, <2>7, PackRests
  <2> QED  BY <1>2, <2>1, <2>2, <2>3, <2>4, <2>5, <2>6, <2>7 DEF Next, Conclude
<1> QED  BY <1>1, <1>2, PTL DEF Spec

(* Every variable has its type: an answer is of the part it was asked for, *)
(* and there are at most two attempts.                                     *)
THEOREM PackTypesHold == Spec => []TypeOK
<1>1. PackInv => TypeOK
  BY DEF PackInv
<1> QED  BY <1>1, PackInvariance, PTL

(* Whatever the source does between the five reads, a control shown as     *)
(* settled was settled for this version while the pack was read.           *)
THEOREM ReassuranceIsEarned == Spec => []NoFalseReassurance
<1>1. PackInv => NoFalseReassurance
  BY DEF PackInv
<1> QED  BY <1>1, PackInvariance, PTL

(* A pack that shows a proposal as executable shows an approval that stood *)
(* for this version.                                                       *)
THEOREM ConsentBeforeExecution == Spec => []ExecutionIsConsented
<1>1. PackInv => ExecutionIsConsented
  BY DEF PackInv
<1> QED  BY <1>1, PackInvariance, PTL

(* A call is refused as contradictory only after two transitions of the    *)
(* source, or for a reason that the source or an answer gave it.           *)
THEOREM OneTransitionAbsorbed == Spec => []OneTransitionIsAbsorbed
<1>1. PackInv => OneTransitionIsAbsorbed
  BY DEF PackInv
<1> QED  BY <1>1, PackInvariance, PTL

-----------------------------------------------------------------------------
(* Side by side.                                                           *)

(* Type correctness of the three services in one process, whatever the     *)
(* interleaving of their steps (proposal_discussion_pack_service.py and    *)
(* portfolio_*.py).                                                        *)
THEOREM ReadModelsTypesHold == ReadModelsSpec => []ReadModelsTypeOK
<1>1. TypeOK /\ ReadsTypeOK /\ PagesTypeOK => ReadModelsTypeOK
  BY DEF ReadModelsTypeOK
<1> QED BY <1>1, PackTypesHold, ReadsTypesHold, PagesTypesHold, PTL DEF ReadModelsSpec
=============================================================================

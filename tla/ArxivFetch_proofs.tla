-------------------------- MODULE ArxivFetch_proofs --------------------------
(***************************************************************************)
(* Proofs about ArxivFetch, for every set of callers, every limit, every   *)
(* size of the PDF and every threshold of the breaker.  Why a part of a    *)
(* paper is never taken for the whole takes an invariant about the file    *)
(* that all calls share: as long as nothing broke off and nobody met a     *)
(* download, there is one writer at most, nobody parses beside it, and     *)
(* what it has written is what is there.                                   *)
(***************************************************************************)
EXTENDS ArxivFetch, TLAPS

Steps ==
  {"idle", "metadata", "asking", "asked", "recording", "download", "streaming", "writing", "parsing", "done"}

Calls ==
  [at : Steps, try : 1..MaxTries, meta : {"none", "arxiv", "injected", "pdf"},
   seen : {"none", "errors", "fetched"}, why : Failures \cup {"ok"}, written : 0..Limit, linked : BOOLEAN,
   text : {"none", "abstract", "part", "whole"}]

Rows == {"none", "errors", "fetched"}
Breakers == [state : {"closed", "open", "half_open"}, failures : 0..Threshold, openFor : 0..Recovery]

\* What a call has of the paper, before its end and at it.
Honest(c, r) ==
  /\ r.at # "done" => r.text = "none" /\ r.meta # "pdf"
  /\ c \in Injected /\ r.at \in {"download", "streaming", "writing", "parsing"} => r.meta # "none"
  /\ r.at = "done" =>
       /\ r.text = "none" <=> r.meta = "none"
       /\ r.text = "abstract" => r.meta \in {"arxiv", "injected"}
       /\ c \in Injected => r.text # "none"

\* Who writes is alone with the file, and has written what is there.
WriterIsAlone ==
  \A c, d \in Callers : At(c, "writing") => ~At(d, "parsing") /\ (At(d, "writing") => d = c)
WriterHasWritten ==
  \A c \in Callers : At(c, "writing") =>
    call[c].linked /\ file.there /\ file.blocks = 1..call[c].written /\ call[c].written <= size
ParserHasFile == \A c \in Callers : At(c, "parsing") => file.there
LeftIsWhole == file.there /\ (\A c \in Callers : ~At(c, "writing")) => file.blocks = Whole
NoPart == \A c \in Callers : call[c].text # "part"

FileIsTrue ==
  ~hurt => WriterIsAlone /\ WriterHasWritten /\ ParserHasFile /\ LeftIsWhole /\ NoPart

FetchInv ==
  /\ TypeOK
  /\ \A c \in Callers : Honest(c, call[c])
  /\ FileIsTrue
  /\ BreakerMatchesCount

-----------------------------------------------------------------------------
(* The breaker of the process *)

LEMMA MinOfTwo ==
  ASSUME NEW m \in Int, NEW n \in Int
  PROVE  Min({m, n}) = IF m <= n THEN m ELSE n
<1>. DEFINE least == IF m <= n THEN m ELSE n
<1>1. least \in {m, n} /\ \A y \in {m, n} : least <= y
  OBVIOUS
<1>2. \A x \in {m, n} : (\A y \in {m, n} : x <= y) => x = least
  OBVIOUS
<1>. QED
  BY <1>1, <1>2 DEF Min

(* The methods of tools/circuit_breaker.py keep the count and the state in   *)
(* step.                                                                     *)
LEMMA BreakerStep ==
  ASSUME breaker \in Breakers, BreakerMatchesCount,
         BeforeRequest \/ RecordSuccess \/ RecordFailure \/ BreakerTick \/ UNCHANGED breaker
  PROVE  breaker' \in Breakers /\ BreakerMatchesCount'
<1>1. CASE BeforeRequest
  <2>. DEFINE state == BreakerState
  <2>1. state \in {"closed", "open", "half_open"} /\ state # "open"
        /\ \/ state = breaker.state
           \/ state = "half_open" /\ breaker.state = "open" /\ breaker.openFor = 0
    BY <1>1 DEF BeforeRequest, BreakerState, Breakers
  <2>2. breaker' = [breaker EXCEPT !.state = state]
    BY <1>1 DEF BeforeRequest
  <2>. HIDE DEF state
  <2>3. breaker' \in Breakers /\ breaker'.state = state /\ breaker'.failures = breaker.failures
        /\ breaker'.openFor = breaker.openFor
    BY <2>1, <2>2 DEF Breakers
  <2>. QED
    BY <2>1, <2>3 DEF BreakerMatchesCount, Breakers
<1>2. CASE RecordSuccess
  BY <1>2, BreakerAssumption DEF BreakerAssumption, RecordSuccess, NewBreaker, Breakers, BreakerMatchesCount
<1>3. CASE RecordFailure
  <2>. DEFINE failures == Min({breaker.failures + 1, Threshold})
  <2>1. failures \in 0..Threshold /\ failures = IF breaker.failures + 1 <= Threshold THEN breaker.failures + 1 ELSE Threshold
    BY MinOfTwo, BreakerAssumption DEF BreakerAssumption, Breakers
  <2>2. breaker' = IF failures = Threshold
                   THEN [state |-> "open", failures |-> failures, openFor |-> Recovery]
                   ELSE [breaker EXCEPT !.failures = failures]
    BY <1>3 DEF RecordFailure
  <2>. HIDE DEF failures
  <2>3. CASE failures = Threshold
    BY <2>1, <2>2, <2>3, BreakerAssumption DEF BreakerAssumption, Breakers, BreakerMatchesCount
  <2>4. CASE failures # Threshold
    <3>1. breaker' \in Breakers /\ breaker'.state = breaker.state /\ breaker'.failures = failures
          /\ breaker'.openFor = breaker.openFor
      BY <2>1, <2>2, <2>4 DEF Breakers
    <3>2. failures < Threshold /\ breaker.failures < Threshold
      BY <2>1, <2>4, BreakerAssumption DEF BreakerAssumption, Breakers
    <3>. QED
      BY <3>1, <3>2 DEF BreakerMatchesCount
  <2>. QED
    BY <2>3, <2>4
<1>4. CASE BreakerTick
  <2>1. breaker' \in Breakers /\ breaker'.state = breaker.state /\ breaker'.failures = breaker.failures
        /\ breaker.openFor > 0
    BY <1>4, BreakerAssumption DEF BreakerAssumption, BreakerTick, Breakers
  <2>. QED
    BY <2>1 DEF BreakerMatchesCount
<1>5. CASE UNCHANGED breaker
  BY <1>5 DEF BreakerMatchesCount
<1>. QED
  BY <1>1, <1>2, <1>3, <1>4, <1>5

-----------------------------------------------------------------------------
(* The steps of a call *)

LEMMA TypeIs ==
  TypeOK <=> /\ size \in Sizes
             /\ file \in [there : BOOLEAN, blocks : SUBSET (1..size)]
             /\ row \in Rows
             /\ call \in [Callers -> Calls]
             /\ hurt \in BOOLEAN
             /\ breaker \in Breakers
BY DEF TypeOK, Rows, Calls, Breakers, Steps

LEMMA GoingIs ==
  ASSUME NEW c \in Callers, call[c] \in Calls, NEW step \in Steps
  PROVE  /\ Going(c, step) \in Calls
         /\ Going(c, step).at = step
         /\ Going(c, step).try = call[c].try /\ Going(c, step).meta = call[c].meta
         /\ Going(c, step).text = call[c].text
<1>1. 0 \in 0..Limit /\ "ok" \in Failures \cup {"ok"}
  BY FetchAssumption DEF FetchAssumption
<1>. DEFINE going == Going(c, step)
<1>2. going = [call[c] EXCEPT !.at = step, !.seen = "none", !.why = "ok", !.written = 0, !.linked = FALSE]
  BY DEF Going
<1>. HIDE DEF going
<1>3. going \in Calls
  BY <1>1, <1>2 DEF Calls
<1>4. /\ going.at = step /\ going.try = call[c].try /\ going.meta = call[c].meta
      /\ going.text = call[c].text
  BY <1>2 DEF Calls
<1>. QED
  BY <1>3, <1>4 DEF going

(* What a step of one call must leave true, when it writes nothing.          *)
LEMMA TurnKeepsInv ==
  ASSUME FetchInv,
         NEW c \in Callers, NEW going \in Calls, Now(c, going), Honest(c, going),
         size' = size, file' = file, row' \in Rows, hurt' \in BOOLEAN,
         BeforeRequest \/ RecordSuccess \/ RecordFailure \/ BreakerTick \/ UNCHANGED breaker,
         ~hurt' => /\ ~hurt
                   /\ going.at # "writing" /\ going.text # "part"
                   /\ going.at = "parsing" => file.there /\ \A d \in Callers \ {c} : ~At(d, "writing")
                   /\ At(c, "writing") => file.blocks = Whole
  PROVE  FetchInv'
<1>1. breaker' \in Breakers /\ BreakerMatchesCount'
  BY BreakerStep, TypeIs DEF FetchInv
<1>2. call \in [Callers -> Calls] /\ size \in Sizes /\ file \in [there : BOOLEAN, blocks : SUBSET (1..size)]
  BY TypeIs DEF FetchInv
<1>3. call' \in [Callers -> Calls] /\ call'[c] = going /\ \A d \in Callers \ {c} : call'[d] = call[d]
  BY <1>2 DEF Now
<1>4. TypeOK'
  BY <1>1, <1>2, <1>3 DEF TypeOK, Rows, Calls, Breakers, Steps
<1>5. \A d \in Callers : Honest(d, call'[d])
  BY <1>3 DEF FetchInv
<1>6. ASSUME ~hurt' PROVE WriterIsAlone' /\ WriterHasWritten' /\ ParserHasFile' /\ LeftIsWhole' /\ NoPart'
  <2>1. WriterIsAlone /\ WriterHasWritten /\ ParserHasFile /\ LeftIsWhole /\ NoPart
    BY <1>6 DEF FetchInv, FileIsTrue
  <2>2. WriterIsAlone'
    BY <1>3, <1>6, <2>1 DEF WriterIsAlone, At
  <2>3. WriterHasWritten'
    BY <1>3, <1>6, <2>1 DEF WriterHasWritten, At
  <2>4. LeftIsWhole'
    BY <1>3, <1>6, <2>1 DEF LeftIsWhole, At, Whole
  <2>5. NoPart'
    BY <1>3, <1>6, <2>1 DEF NoPart
  <2>6. ParserHasFile'
    BY <1>3, <1>6, <2>1 DEF ParserHasFile, At
  <2>. QED
    BY <2>2, <2>3, <2>4, <2>5, <2>6
<1>. QED
  BY <1>1, <1>4, <1>5, <1>6 DEF FetchInv, FileIsTrue

LEMMA TryIs ==
  ASSUME FetchInv, NEW c \in Callers
  PROVE  /\ 1 \in 1..MaxTries
         /\ TriesLeft(c) => NextTry(c) \in 1..MaxTries
<1>1. call[c] \in Calls
  BY TypeIs DEF FetchInv
<1>2. call[c].try \in 1..MaxTries
  BY <1>1 DEF Calls
<1>. QED
  BY <1>2, FetchAssumption DEF FetchAssumption, TriesLeft, NextTry

LEMMA WithoutMetadataIs ==
  ASSUME FetchInv, NEW c \in Callers, call[c].text = "none", call[c].meta # "pdf"
  PROVE  /\ WithoutMetadata(c) \in Calls /\ Honest(c, WithoutMetadata(c))
         /\ WithoutMetadata(c).at = "download" /\ WithoutMetadata(c).text = "none"
<1>. DEFINE meta == IF c \in Injected THEN "injected" ELSE "none"
            going == WithoutMetadata(c)
<1>1. call[c] \in Calls
  BY TypeIs DEF FetchInv
<1>2. meta \in {"none", "arxiv", "injected", "pdf"} /\ meta # "pdf" /\ (c \in Injected => meta # "none")
  OBVIOUS
<1>3. going = [Going(c, "download") EXCEPT !.try = 1, !.meta = meta]
  BY DEF WithoutMetadata
<1>4. Going(c, "download") \in Calls /\ Going(c, "download").at = "download" /\ Going(c, "download").text = "none"
  BY <1>1, GoingIs DEF Steps
<1>. HIDE DEF meta, going
<1>5. going \in Calls /\ going.at = "download" /\ going.meta = meta /\ going.text = "none"
  BY <1>2, <1>3, <1>4, TryIs DEF Calls
<1>6. Honest(c, going)
  BY <1>2, <1>5 DEF Honest
<1>. QED
  BY <1>5, <1>6 DEF going

LEMMA WithoutPdfIs ==
  ASSUME FetchInv, NEW c \in Callers, call[c].at \in {"download", "streaming", "writing", "parsing"}
  PROVE  /\ WithoutPdf(c) \in Calls /\ Honest(c, WithoutPdf(c))
         /\ WithoutPdf(c).at = "done" /\ WithoutPdf(c).text # "part"
<1>. DEFINE text == IF call[c].meta = "none" THEN "none" ELSE "abstract"
            going == WithoutPdf(c)
<1>1. call[c] \in Calls /\ Honest(c, call[c])
  BY TypeIs DEF FetchInv
<1>2. /\ text \in {"none", "abstract", "part", "whole"} /\ text # "part"
      /\ text = "none" <=> call[c].meta = "none"
      /\ text # "none" => text = "abstract"
  OBVIOUS
<1>3. going = [Going(c, "done") EXCEPT !.try = 1, !.text = text]
  BY DEF WithoutPdf
<1>4. Going(c, "done") \in Calls /\ Going(c, "done").at = "done" /\ Going(c, "done").meta = call[c].meta
  BY <1>1, GoingIs DEF Steps
<1>. HIDE DEF text, going
<1>5. going \in Calls /\ going.at = "done" /\ going.meta = call[c].meta /\ going.text = text
  BY <1>2, <1>3, <1>4, TryIs DEF Calls
<1>6. call[c].meta \in {"none", "arxiv", "injected", "pdf"}
  BY <1>1 DEF Calls
<1>7. Honest(c, going)
  BY <1>1, <1>2, <1>5, <1>6 DEF Honest
<1>. QED
  BY <1>2, <1>5, <1>7 DEF going

LEMMA ParsedIs ==
  ASSUME FetchInv, NEW c \in Callers, call[c].at = "parsing", NEW text \in {"part", "whole"}
  PROVE  /\ Parsed(c, text) \in Calls /\ Honest(c, Parsed(c, text))
         /\ Parsed(c, text).at = "done" /\ Parsed(c, text).text = text
<1>. DEFINE meta == IF Going(c, "done").meta = "none" THEN "pdf" ELSE Going(c, "done").meta
            going == Parsed(c, text)
<1>1. call[c] \in Calls /\ Honest(c, call[c])
  BY TypeIs DEF FetchInv
<1>2. Going(c, "done") \in Calls /\ Going(c, "done").at = "done"
  BY <1>1, GoingIs DEF Steps
<1>3. meta \in {"none", "arxiv", "injected", "pdf"} /\ meta # "none"
  BY <1>2 DEF Calls
<1>4. going = [Going(c, "done") EXCEPT !.text = text, !.meta = meta]
  BY DEF Parsed
<1>. HIDE DEF meta, going
<1>5. going \in Calls /\ going.at = "done" /\ going.meta = meta /\ going.text = text
  BY <1>2, <1>3, <1>4 DEF Calls
<1>6. Honest(c, going)
  BY <1>3, <1>5 DEF Honest
<1>. QED
  BY <1>5, <1>6 DEF going

LEMMA MetadataStepKeepsInv ==
  ASSUME FetchInv, NEW c \in Callers, Start(c) \/ FetchMetadata(c)
  PROVE  FetchInv'
<1>1. call[c] \in Calls /\ Honest(c, call[c]) /\ row \in Rows /\ hurt \in BOOLEAN
  BY TypeIs DEF FetchInv
<1>2. call[c].at \in {"idle", "metadata", "asking", "asked", "recording"}
  BY DEF Start, FetchMetadata, ReadCache, AskMetadata, MetadataAnswer, RecordMetadata, At
<1>3. ~At(c, "writing") /\ call[c].text = "none" /\ call[c].meta # "pdf"
  BY <1>1, <1>2 DEF Honest, At
<1>4. \A step \in Steps :
        /\ Going(c, step) \in Calls /\ Going(c, step).at = step /\ Going(c, step).text = "none"
        /\ Going(c, step).meta = call[c].meta
  BY <1>1, <1>3, GoingIs
<1>5. {"metadata", "asking", "asked", "recording", "download"} \subseteq Steps
  BY DEF Steps
\* What is shown of each next step of the call.
<1>. DEFINE Quiet(going) ==
       going \in Calls /\ Honest(c, going) /\ going.at \notin {"writing", "parsing"} /\ going.text = "none"
<1>6. ASSUME NEW going, Quiet(going), Now(c, going), size' = size, file' = file, hurt' = hurt, row' \in Rows,
             BeforeRequest \/ RecordSuccess \/ RecordFailure \/ UNCHANGED breaker
      PROVE  FetchInv'
  BY <1>1, <1>3, <1>6, TurnKeepsInv
<1>7. \A step \in {"metadata", "asking", "asked", "recording"} : Quiet(Going(c, step))
  BY <1>3, <1>4, <1>5 DEF Honest
<1>8. Quiet(WithoutMetadata(c))
  BY <1>3, WithoutMetadataIs
<1>9. ASSUME NEW meta \in {"arxiv", "injected"}, NEW try \in 1..MaxTries
      PROVE  Quiet([Going(c, "download") EXCEPT !.try = try, !.meta = meta])
  <2>. DEFINE base == Going(c, "download")
              going == [base EXCEPT !.try = try, !.meta = meta]
  <2>0. base \in Calls /\ base.at = "download" /\ base.text = "none"
    BY <1>4, <1>5
  <2>. HIDE DEF base
  <2>1. going \in Calls /\ going.at = "download" /\ going.text = "none" /\ going.meta = meta
    BY <2>0 DEF Calls
  <2>. HIDE DEF going
  <2>2. Honest(c, going)
    BY <2>1 DEF Honest
  <2>3. Quiet(going)
    BY <2>1, <2>2
  <2>. QED
    BY <2>3 DEF going, base
<1>10. ASSUME NEW why \in Failures \cup {"ok"}
       PROVE  Quiet([Going(c, "recording") EXCEPT !.seen = row, !.why = why])
  <2>. DEFINE base == Going(c, "recording")
              going == [base EXCEPT !.seen = row, !.why = why]
  <2>0. base \in Calls /\ base.at = "recording" /\ base.text = "none" /\ base.meta = call[c].meta
    BY <1>4, <1>5
  <2>. HIDE DEF base
  <2>1. going \in Calls /\ going.at = "recording" /\ going.text = "none" /\ going.meta = call[c].meta
    BY <1>1, <2>0 DEF Calls, Rows
  <2>. HIDE DEF going
  <2>2. Honest(c, going)
    BY <1>3, <2>1 DEF Honest
  <2>3. Quiet(going)
    BY <2>1, <2>2
  <2>. QED
    BY <2>3 DEF going, base
<1>11. TriesLeft(c) => Quiet([Going(c, "metadata") EXCEPT !.try = NextTry(c)])
  <2>. DEFINE try == NextTry(c)
              going == [Going(c, "metadata") EXCEPT !.try = try]
  <2>. SUFFICES ASSUME TriesLeft(c) PROVE Quiet(going)
    OBVIOUS
  <2>1. try \in 1..MaxTries
    BY TryIs
  <2>. HIDE DEF try
  <2>2. going \in Calls /\ going.at = "metadata" /\ going.text = "none" /\ going.meta = call[c].meta
    BY <1>4, <1>5, <2>1 DEF Calls
  <2>. HIDE DEF going
  <2>3. Honest(c, going)
    BY <1>3, <2>2 DEF Honest
  <2>. QED
    BY <2>2, <2>3
<1>. HIDE DEF Quiet
<1>12. CASE Start(c)
  <2>1. CASE Now(c, Going(c, "metadata"))
    BY <1>1, <1>6, <1>7, <1>12, <2>1 DEF Start
  <2>2. CASE Now(c, [Going(c, "download") EXCEPT !.meta = "injected"])
    <3>1. Going(c, "download").try \in 1..MaxTries
      BY <1>4, <1>5 DEF Calls
    <3>2. [Going(c, "download") EXCEPT !.meta = "injected"]
            = [Going(c, "download") EXCEPT !.try = Going(c, "download").try, !.meta = "injected"]
      BY <1>4, <1>5 DEF Calls
    <3>3. Quiet([Going(c, "download") EXCEPT !.meta = "injected"])
      BY <1>9, <3>1, <3>2
    <3>. QED
      BY <1>1, <1>6, <1>12, <2>2, <3>3 DEF Start
  <2>. QED
    BY <1>12, <2>1, <2>2 DEF Start
<1>13. CASE ReadCache(c)
  BY <1>1, <1>6, <1>7, <1>9, <1>13, TryIs DEF ReadCache
<1>14. CASE AskMetadata(c)
  BY <1>1, <1>6, <1>7, <1>8, <1>14 DEF AskMetadata
<1>15. CASE MetadataAnswer(c)
  <2>1. CASE RecordSuccess /\ Now(c, [Going(c, "recording") EXCEPT !.seen = row])
    <3>1. [Going(c, "recording") EXCEPT !.seen = row] = [Going(c, "recording") EXCEPT !.seen = row, !.why = "ok"]
      BY <1>1 DEF Going, Calls
    <3>. QED
      BY <1>1, <1>6, <1>10, <1>15, <2>1, <3>1 DEF MetadataAnswer
  <2>2. ASSUME NEW why \in Failures, Now(c, [Going(c, "recording") EXCEPT !.seen = row, !.why = why]),
               UNCHANGED breaker
        PROVE  FetchInv'
    BY <1>1, <1>6, <1>10, <1>15, <2>2 DEF MetadataAnswer
  <2>. QED
    BY <1>15, <2>1, <2>2 DEF MetadataAnswer
<1>16. CASE RecordMetadata(c)
  <2>1. row' \in Rows
    BY <1>1, <1>16 DEF RecordMetadata, WriteCache, Noted, Rows
  <2>2. UNCHANGED <<size, file, hurt>>
    BY <1>16 DEF RecordMetadata
  <2>3. \E going : /\ Quiet(going) /\ Now(c, going)
                   /\ RecordSuccess \/ RecordFailure \/ UNCHANGED breaker
    <3>1. CASE Now(c, [Going(c, "download") EXCEPT !.try = 1, !.meta = "arxiv"]) /\ UNCHANGED breaker
      BY <1>9, <3>1, TryIs
    <3>2. CASE Now(c, WithoutMetadata(c)) /\ (RecordSuccess \/ RecordFailure \/ UNCHANGED breaker)
      BY <1>8, <3>2
    <3>3. CASE /\ TriesLeft(c) /\ Now(c, [Going(c, "metadata") EXCEPT !.try = NextTry(c)])
               /\ RecordFailure \/ UNCHANGED breaker
      BY <1>11, <3>3
    <3>. QED
      BY <1>16, <3>1, <3>2, <3>3 DEF RecordMetadata, RecordArxivFailure
  <2>. QED
    BY <1>6, <2>1, <2>2, <2>3
<1>. QED
  BY <1>12, <1>13, <1>14, <1>15, <1>16 DEF FetchMetadata

(* The steps of the download that write nothing, and the text.               *)
LEMMA ReadStepKeepsInv ==
  ASSUME FetchInv, NEW c \in Callers,
         FindFile(c) \/ AskPdf(c) \/ PdfRefused(c) \/ BreakOff(c) \/ CloseFile(c) \/ Parse(c) \/ Return(c)
  PROVE  FetchInv'
<1>1. call[c] \in Calls /\ Honest(c, call[c]) /\ row \in Rows /\ hurt \in BOOLEAN
  BY TypeIs DEF FetchInv
<1>2. ASSUME At(c, "download") \/ At(c, "writing"), NEW going, going = [Going(c, "parsing") EXCEPT !.try = 1]
      PROVE  going \in Calls /\ Honest(c, going) /\ going.at = "parsing" /\ going.text = "none"
  <2>. DEFINE base == Going(c, "parsing")
  <2>1. base \in Calls /\ base.at = "parsing" /\ base.text = call[c].text /\ base.meta = call[c].meta
    BY <1>1, GoingIs DEF Steps
  <2>. HIDE DEF base
  <2>2. going \in Calls /\ going.at = "parsing" /\ going.text = call[c].text /\ going.meta = call[c].meta
    BY <1>2, <2>1, TryIs DEF Calls, base
  <2>. QED
    BY <1>1, <1>2, <2>2 DEF Honest, At
<1>3. ASSUME NEW why, FailPdf(c, why), At(c, "streaming") \/ At(c, "writing")
      PROVE  \E going \in Calls :
               /\ Now(c, going) /\ Honest(c, going) /\ going.at \in {"download", "done"} /\ going.text # "part"
               /\ RecordFailure \/ UNCHANGED breaker
  <2>0. RecordFailure \/ UNCHANGED breaker
    BY <1>3 DEF FailPdf, RecordArxivFailure
  <2>1. CASE Retryable(why) /\ TriesLeft(c)
    <3>. DEFINE try == NextTry(c)
                base == Going(c, "download")
                going == [base EXCEPT !.try = try]
    <3>1. try \in 1..MaxTries
      BY <2>1, TryIs
    <3>2. base \in Calls /\ base.at = "download" /\ base.text = call[c].text /\ base.meta = call[c].meta
      BY <1>1, GoingIs DEF Steps
    <3>3. Now(c, going)
      BY <1>3, <2>1 DEF FailPdf
    <3>. HIDE DEF try, base
    <3>4. going \in Calls /\ going.at = "download" /\ going.text = call[c].text /\ going.meta = call[c].meta
      BY <3>1, <3>2 DEF Calls
    <3>. HIDE DEF going
    <3>5. Honest(c, going) /\ going.text = "none"
      BY <1>1, <1>3, <3>4 DEF Honest, At
    <3>. QED
      BY <2>0, <3>3, <3>4, <3>5
  <2>2. CASE ~(Retryable(why) /\ TriesLeft(c))
    BY <1>3, <2>0, <2>2, WithoutPdfIs DEF FailPdf, At
  <2>. QED
    BY <2>1, <2>2
<1>4. CASE FindFile(c)
  <2>. DEFINE going == [Going(c, "parsing") EXCEPT !.try = 1]
  <2>1. going \in Calls /\ Honest(c, going) /\ going.at = "parsing" /\ going.text = "none" /\ Now(c, going)
    BY <1>2, <1>4 DEF FindFile
  <2>. HIDE DEF going
  <2>2. /\ hurt' \in BOOLEAN
        /\ ~hurt' => ~hurt /\ file.there /\ \A d \in Callers : ~At(d, "writing")
    BY <1>1, <1>4 DEF FindFile, Writers
  <2>. QED
    BY <1>1, <1>4, <2>1, <2>2, TurnKeepsInv DEF FindFile
<1>5. CASE AskPdf(c)
  <2>1. CASE Now(c, Going(c, "streaming")) /\ BeforeRequest
    <3>. DEFINE going == Going(c, "streaming")
    <3>1. going \in Calls /\ going.at = "streaming" /\ going.text = call[c].text /\ going.meta = call[c].meta
      BY <1>1, GoingIs DEF Steps
    <3>2. Honest(c, going) /\ going.text = "none" /\ ~At(c, "writing")
      BY <1>1, <1>5, <3>1 DEF AskPdf, At, Honest
    <3>. HIDE DEF going
    <3>. QED
      BY <1>1, <1>5, <2>1, <3>1, <3>2, TurnKeepsInv DEF AskPdf, going
  <2>2. CASE Now(c, WithoutPdf(c)) /\ UNCHANGED breaker
    <3>1. call[c].at = "download" /\ ~At(c, "writing")
      BY <1>5 DEF AskPdf, At
    <3>. QED
      BY <1>1, <1>5, <2>2, <3>1, WithoutPdfIs, TurnKeepsInv DEF AskPdf
  <2>. QED
    BY <1>5, <2>1, <2>2 DEF AskPdf
<1>6. CASE PdfRefused(c)
  <2>1. ~At(c, "writing") /\ At(c, "streaming")
    BY <1>6 DEF PdfRefused, At
  <2>. QED
    BY <1>1, <1>3, <1>6, <2>1, TurnKeepsInv DEF PdfRefused
<1>7. CASE BreakOff(c)
  BY <1>1, <1>3, <1>7, TurnKeepsInv DEF BreakOff
<1>8. CASE CloseFile(c)
  <2>. DEFINE going == [Going(c, "parsing") EXCEPT !.try = 1]
  <2>1. going \in Calls /\ Honest(c, going) /\ going.at = "parsing" /\ going.text = "none" /\ Now(c, going)
    BY <1>2, <1>8 DEF CloseFile
  <2>. HIDE DEF going
  <2>2. ~hurt => file.there /\ file.blocks = Whole /\ \A d \in Callers \ {c} : ~At(d, "writing")
    BY <1>8 DEF CloseFile, FetchInv, FileIsTrue, WriterIsAlone, WriterHasWritten, Whole
  <2>. QED
    BY <1>1, <1>8, <2>1, <2>2, TurnKeepsInv DEF CloseFile
<1>9. CASE Parse(c)
  <2>1. call[c].at = "parsing" /\ At(c, "parsing") /\ ~At(c, "writing") /\ UNCHANGED <<size, file, row, hurt, breaker>>
    BY <1>9 DEF Parse, At
  <2>2. CASE Now(c, WithoutPdf(c))
    BY <1>1, <2>1, <2>2, WithoutPdfIs, TurnKeepsInv
  <2>3. CASE file.there /\ Now(c, Parsed(c, IF file.blocks = Whole THEN "whole" ELSE "part"))
    <3>. DEFINE text == IF file.blocks = Whole THEN "whole" ELSE "part"
    <3>1. text \in {"part", "whole"} /\ Now(c, Parsed(c, text))
      BY <2>3
    <3>2. ~hurt => text # "part"
      BY <2>1, <2>3 DEF FetchInv, FileIsTrue, WriterIsAlone, LeftIsWhole
    <3>. HIDE DEF text
    <3>. QED
      BY <1>1, <2>1, <3>1, <3>2, ParsedIs, TurnKeepsInv
  <2>. QED
    BY <1>9, <2>2, <2>3 DEF Parse
<1>10. CASE Return(c)
  <2>1. NoCall \in Calls /\ NoCall.at = "idle" /\ NoCall.text = "none" /\ NoCall.meta = "none"
    BY FetchAssumption, TryIs DEF FetchAssumption, NoCall, Calls, Steps
  <2>2. Honest(c, NoCall) /\ ~At(c, "writing")
    BY <1>10, <2>1 DEF Honest, Return, At
  <2>. QED
    BY <1>1, <1>10, <2>1, <2>2, TurnKeepsInv DEF Return
<1>. QED
  BY <1>4, <1>5, <1>6, <1>7, <1>8, <1>9, <1>10

(* The steps that change the file or all calls at once.                      *)
LEMMA OpenFileKeepsInv ==
  ASSUME FetchInv, NEW c \in Callers, OpenFile(c)
  PROVE  FetchInv'
<1>. DEFINE base == Going(c, "writing")
            going == [base EXCEPT !.linked = TRUE]
<1>1. /\ size \in Sizes /\ row \in Rows /\ hurt \in BOOLEAN /\ breaker \in Breakers
      /\ call \in [Callers -> Calls] /\ Honest(c, call[c])
  BY TypeIs DEF FetchInv
<1>2. base \in Calls /\ base.at = "writing" /\ base.text = call[c].text /\ base.meta = call[c].meta
  BY <1>1, GoingIs DEF Steps
<1>3. base.written = 0
  BY <1>1 DEF Going, Calls
<1>4. At(c, "streaming") /\ Now(c, going) /\ file' = [there |-> TRUE, blocks |-> {}]
      /\ hurt' = (hurt \/ file.there) /\ UNCHANGED <<size, row, breaker>>
  BY DEF OpenFile
<1>. HIDE DEF base
<1>5. /\ going \in Calls /\ going.at = "writing" /\ going.text = call[c].text /\ going.meta = call[c].meta
      /\ going.written = 0 /\ going.linked = TRUE
  BY <1>2, <1>3 DEF Calls
<1>. HIDE DEF going
<1>6. call' \in [Callers -> Calls] /\ call'[c] = going /\ \A d \in Callers \ {c} : call'[d] = call[d]
  BY <1>1, <1>4, <1>5 DEF Now
<1>7. TypeOK'
  BY <1>1, <1>4, <1>6 DEF TypeOK, Rows, Calls, Breakers, Steps
<1>8. Honest(c, going) /\ going.text = "none"
  BY <1>1, <1>4, <1>5 DEF Honest, At
<1>9. \A d \in Callers : Honest(d, call'[d])
  BY <1>6, <1>8 DEF FetchInv
<1>10. ASSUME ~hurt'
       PROVE  WriterIsAlone' /\ WriterHasWritten' /\ ParserHasFile' /\ LeftIsWhole' /\ NoPart'
  <2>1. /\ ~file.there
        /\ \A d \in Callers : ~At(d, "writing") /\ ~At(d, "parsing") /\ call[d].text # "part"
    BY <1>4, <1>10 DEF FetchInv, FileIsTrue, WriterHasWritten, ParserHasFile, NoPart
  <2>2. \A d \in Callers \ {c} : ~At(d, "writing")' /\ ~At(d, "parsing")'
    BY <1>6, <2>1 DEF At
  <2>3. At(c, "writing")' /\ ~At(c, "parsing")' /\ call'[c].written = 0 /\ call'[c].linked
    BY <1>5, <1>6 DEF At
  <2>4. 1..0 = {} /\ size' \in Nat
    BY <1>1, <1>4, FetchAssumption DEF FetchAssumption
  <2>5. file'.there /\ file'.blocks = {}
    BY <1>4
  <2>6. WriterIsAlone'
    BY <2>2, <2>3 DEF WriterIsAlone
  <2>7. WriterHasWritten'
    BY <2>2, <2>3, <2>4, <2>5 DEF WriterHasWritten
  <2>8. NoPart'
    BY <1>6, <1>8, <2>1 DEF NoPart
  <2>. QED
    BY <2>2, <2>3, <2>6, <2>7, <2>8 DEF ParserHasFile, LeftIsWhole
<1>11. BreakerMatchesCount'
  BY <1>4 DEF FetchInv, BreakerMatchesCount
<1>. QED
  BY <1>7, <1>9, <1>10, <1>11 DEF FetchInv, FileIsTrue

LEMMA WriteBlockKeepsInv ==
  ASSUME FetchInv, NEW c \in Callers, WriteBlock(c)
  PROVE  FetchInv'
<1>. DEFINE n == call[c].written + 1
            going == [call[c] EXCEPT !.written = n]
<1>1. /\ size \in Sizes /\ row \in Rows /\ hurt \in BOOLEAN /\ breaker \in Breakers
      /\ call \in [Callers -> Calls] /\ Honest(c, call[c])
      /\ file \in [there : BOOLEAN, blocks : SUBSET (1..size)]
  BY TypeIs DEF FetchInv
<1>2. /\ At(c, "writing") /\ n <= size /\ n <= Limit /\ Now(c, going)
      /\ file' = IF call[c].linked THEN [file EXCEPT !.blocks = file.blocks \cup {n}] ELSE file
      /\ UNCHANGED <<size, row, hurt, breaker>>
  BY DEF WriteBlock
<1>3. call[c].written \in 0..Limit
  BY <1>1 DEF Calls
<1>4. n \in 0..Limit /\ n \in 1..size
  BY <1>1, <1>2, <1>3, FetchAssumption DEF FetchAssumption
<1>5. 1..n = (1..call[c].written) \cup {n}
  BY <1>3
<1>. HIDE DEF n
<1>6. /\ going \in Calls /\ going.at = "writing" /\ going.text = call[c].text /\ going.meta = call[c].meta
      /\ going.written = n /\ going.linked = call[c].linked
  BY <1>1, <1>2, <1>4 DEF Calls, At
<1>. HIDE DEF going
<1>7. call' \in [Callers -> Calls] /\ call'[c] = going /\ \A d \in Callers \ {c} : call'[d] = call[d]
  BY <1>1, <1>2, <1>6 DEF Now
<1>8. /\ file' \in [there : BOOLEAN, blocks : SUBSET (1..size)] /\ file'.there = file.there
      /\ call[c].linked => file'.blocks = file.blocks \cup {n}
  BY <1>1, <1>2, <1>4
<1>9. TypeOK'
  BY <1>1, <1>2, <1>7, <1>8 DEF TypeOK, Rows, Calls, Breakers, Steps
<1>10. \A d \in Callers : At(d, "writing")' = At(d, "writing") /\ At(d, "parsing")' = At(d, "parsing")
                         /\ call'[d].text = call[d].text
  BY <1>2, <1>6, <1>7 DEF At
<1>11. Honest(c, going)
  BY <1>1, <1>2, <1>6 DEF Honest, At
<1>12. \A d \in Callers : Honest(d, call'[d])
  BY <1>7, <1>11 DEF FetchInv
<1>13. ASSUME ~hurt'
       PROVE  WriterIsAlone' /\ WriterHasWritten' /\ ParserHasFile' /\ LeftIsWhole' /\ NoPart'
  <2>1. WriterIsAlone /\ WriterHasWritten /\ ParserHasFile /\ LeftIsWhole /\ NoPart
    BY <1>2, <1>13 DEF FetchInv, FileIsTrue
  <2>2. WriterIsAlone' /\ NoPart'
    BY <1>10, <2>1 DEF WriterIsAlone, NoPart
  <2>3. ParserHasFile' /\ LeftIsWhole'
    BY <1>2, <1>8, <1>10, <2>1 DEF ParserHasFile, LeftIsWhole
  <2>4. \A d \in Callers : At(d, "writing") => d = c
    BY <1>2, <2>1 DEF WriterIsAlone
  <2>5. WriterHasWritten'
    BY <1>2, <1>4, <1>5, <1>6, <1>7, <1>8, <1>10, <2>1, <2>4 DEF WriterHasWritten
  <2>. QED
    BY <2>2, <2>3, <2>5
<1>14. BreakerMatchesCount'
  BY <1>2 DEF FetchInv, BreakerMatchesCount
<1>. QED
  BY <1>9, <1>12, <1>13, <1>14 DEF FetchInv, FileIsTrue

LEMMA ExceedLimitKeepsInv ==
  ASSUME FetchInv, NEW c \in Callers, ExceedLimit(c)
  PROVE  FetchInv'
<1>. DEFINE going == WithoutPdf(c)
<1>1. /\ size \in Sizes /\ row \in Rows /\ hurt \in BOOLEAN /\ breaker \in Breakers
      /\ call \in [Callers -> Calls] /\ \A d \in Callers : Honest(d, call[d])
  BY TypeIs DEF FetchInv
<1>2. /\ At(c, "writing") /\ file' = NoFile /\ UNCHANGED <<size, row, breaker>>
      /\ call' = [d \in Callers |-> IF d = c THEN going ELSE [call[d] EXCEPT !.linked = FALSE]]
      /\ hurt' = (hurt \/ Writers # {c})
  BY DEF ExceedLimit, Unlinked
<1>3. going \in Calls /\ Honest(c, going) /\ going.at = "done" /\ going.text # "part"
  BY <1>2, WithoutPdfIs DEF At
<1>. HIDE DEF going
<1>. DEFINE unlinked(d) == [call[d] EXCEPT !.linked = FALSE]
<1>11. ASSUME NEW d \in Callers
       PROVE  /\ unlinked(d) \in Calls
              /\ unlinked(d).at = call[d].at /\ unlinked(d).text = call[d].text
              /\ unlinked(d).meta = call[d].meta
  <2>1. call[d] \in Calls
    BY <1>1
  <2>. QED
    BY <2>1 DEF Calls
<1>12. call' = [d \in Callers |-> IF d = c THEN going ELSE unlinked(d)]
  BY <1>2
<1>. HIDE DEF unlinked
<1>4. /\ call' \in [Callers -> Calls] /\ call'[c] = going
      /\ \A d \in Callers \ {c} : /\ call'[d].at = call[d].at /\ call'[d].text = call[d].text
                                  /\ call'[d].meta = call[d].meta
  BY <1>3, <1>11, <1>12
<1>5. file' \in [there : BOOLEAN, blocks : SUBSET (1..size)] /\ ~file'.there
  BY <1>2 DEF NoFile
<1>6. hurt' \in BOOLEAN
  BY <1>1, <1>2
<1>7. TypeOK'
  BY <1>1, <1>2, <1>4, <1>5, <1>6 DEF TypeOK, Rows, Calls, Breakers, Steps
<1>8. \A d \in Callers : Honest(d, call'[d])
  BY <1>1, <1>3, <1>4 DEF Honest
<1>9. ASSUME ~hurt'
      PROVE  WriterIsAlone' /\ WriterHasWritten' /\ ParserHasFile' /\ LeftIsWhole' /\ NoPart'
  <2>1. \A d \in Callers : (At(d, "writing") => d = c) /\ ~At(d, "parsing") /\ call[d].text # "part"
    BY <1>2, <1>9 DEF FetchInv, FileIsTrue, WriterIsAlone, NoPart
  <2>2. \A d \in Callers : ~At(d, "writing")' /\ ~At(d, "parsing")' /\ call'[d].text # "part"
    BY <1>3, <1>4, <2>1 DEF At
  <2>. QED
    BY <1>5, <2>2 DEF WriterIsAlone, WriterHasWritten, ParserHasFile, LeftIsWhole, NoPart
<1>10. BreakerMatchesCount'
  BY <1>2 DEF FetchInv, BreakerMatchesCount
<1>. QED
  BY <1>7, <1>8, <1>9, <1>10 DEF FetchInv, FileIsTrue

LEMMA RestartKeepsInv ==
  ASSUME FetchInv, Restart
  PROVE  FetchInv'
<1>1. /\ size \in Sizes /\ row \in Rows /\ hurt \in BOOLEAN
      /\ file \in [there : BOOLEAN, blocks : SUBSET (1..size)]
  BY TypeIs DEF FetchInv
<1>2. /\ call' = [c \in Callers |-> NoCall] /\ breaker' = NewBreaker /\ UNCHANGED <<size, file, row>>
      /\ hurt' = (hurt \/ Writers # {})
  BY DEF Restart
<1>3. NoCall \in Calls /\ NoCall.at = "idle" /\ NoCall.text = "none" /\ NoCall.meta = "none"
  BY FetchAssumption DEF FetchAssumption, NoCall, Calls, Steps
<1>4. call' \in [Callers -> Calls] /\ \A c \in Callers : call'[c] = NoCall
  BY <1>2, <1>3
<1>5. NewBreaker \in Breakers
  BY BreakerAssumption DEF BreakerAssumption, NewBreaker, Breakers
<1>6. TypeOK'
  BY <1>1, <1>2, <1>4, <1>5 DEF TypeOK, Rows, Calls, Breakers, Steps
<1>7. \A c \in Callers : Honest(c, call'[c])
  BY <1>3, <1>4 DEF Honest
<1>8. ASSUME ~hurt'
      PROVE  WriterIsAlone' /\ WriterHasWritten' /\ ParserHasFile' /\ LeftIsWhole' /\ NoPart'
  <2>1. (\A c \in Callers : ~At(c, "writing")) /\ (file.there => file.blocks = Whole)
    BY <1>2, <1>8 DEF FetchInv, FileIsTrue, Writers, LeftIsWhole
  <2>2. \A c \in Callers : ~At(c, "writing")' /\ ~At(c, "parsing")' /\ call'[c].text # "part"
    BY <1>3, <1>4 DEF At
  <2>. QED
    BY <1>2, <2>1, <2>2 DEF WriterIsAlone, WriterHasWritten, ParserHasFile, LeftIsWhole, NoPart, Whole
<1>9. BreakerMatchesCount'
  BY <1>2, BreakerAssumption DEF BreakerAssumption, BreakerMatchesCount, NewBreaker
<1>. QED
  BY <1>6, <1>7, <1>8, <1>9 DEF FetchInv, FileIsTrue

-----------------------------------------------------------------------------
(* The theorems *)

LEMMA InitHolds == Init => FetchInv
<1>. SUFFICES ASSUME Init PROVE FetchInv
  OBVIOUS
<1>1. NoCall \in Calls /\ NoCall.at = "idle" /\ NoCall.text = "none" /\ NoCall.meta = "none"
  BY FetchAssumption DEF FetchAssumption, NoCall, Calls, Steps
<1>2. call \in [Callers -> Calls] /\ \A c \in Callers : call[c] = NoCall
  BY <1>1 DEF Init
<1>3. NewBreaker \in Breakers
  BY BreakerAssumption DEF BreakerAssumption, NewBreaker, Breakers
<1>4. TypeOK
  BY <1>2, <1>3, TypeIs DEF Init, NoFile, Rows
<1>5. \A c \in Callers : Honest(c, call[c])
  BY <1>1, <1>2 DEF Honest
<1>6. FileIsTrue
  BY <1>1, <1>2 DEF Init, NoFile, FileIsTrue, WriterIsAlone, WriterHasWritten, ParserHasFile, LeftIsWhole, NoPart, At
<1>7. BreakerMatchesCount
  BY BreakerAssumption DEF BreakerAssumption, Init, BreakerMatchesCount, NewBreaker
<1>. QED
  BY <1>4, <1>5, <1>6, <1>7 DEF FetchInv

LEMMA NextPreserves == FetchInv /\ [Next]_fetch => FetchInv'
<1>. SUFFICES ASSUME FetchInv, [Next]_fetch PROVE FetchInv'
  OBVIOUS
<1>1. ASSUME NEW c \in Callers, Start(c) \/ Ingest(c) \/ Return(c) PROVE FetchInv'
  BY <1>1, MetadataStepKeepsInv, ReadStepKeepsInv, OpenFileKeepsInv, WriteBlockKeepsInv, ExceedLimitKeepsInv
  DEF Ingest, Download
<1>2. CASE Restart
  BY <1>2, RestartKeepsInv
<1>3. CASE Tick
  <2>1. breaker' \in Breakers /\ BreakerMatchesCount'
    BY <1>3, BreakerStep, TypeIs DEF FetchInv, Tick
  <2>2. TypeOK' /\ FileIsTrue' /\ call' = call
    BY <1>3, <2>1 DEF FetchInv, Tick, TypeOK, Breakers, FileIsTrue, WriterIsAlone, WriterHasWritten, ParserHasFile,
      LeftIsWhole, NoPart, At, Whole
  <2>. QED
    BY <2>1, <2>2 DEF FetchInv
<1>4. CASE UNCHANGED fetch
  BY <1>4 DEF fetch, FetchInv, TypeOK, FileIsTrue, WriterIsAlone, WriterHasWritten, ParserHasFile,
      LeftIsWhole, NoPart, At, Whole, BreakerMatchesCount
<1>. QED
  BY <1>1, <1>2, <1>3, <1>4 DEF Next

(* Every value stays in its type: no count passes its bound, and no block    *)
(* that the PDF does not have gets into the file.                            *)
THEOREM FetchTyped == Spec => []TypeOK
<1>1. FetchInv => TypeOK
  BY DEF FetchInv
<1>. QED
  BY <1>1, InitHolds, NextPreserves, PTL DEF Spec

(* The process-local breaker (tools/circuit_breaker.py) is closed exactly    *)
(* while it has counted too few failures since the last success, in whatever *)
(* order its threads record what they met.                                   *)
THEOREM BreakerCounts == Spec => []BreakerMatchesCount
<1>1. FetchInv => BreakerMatchesCount
  BY DEF FetchInv
<1>. QED
  BY <1>1, InitHolds, NextPreserves, PTL DEF Spec

(* download_pdf, _route_url: nobody analyses a part of a paper as the whole  *)
(* unless a download broke off or two calls met in the file of the shared    *)
(* name; and an ingestion ends with all that could be had of the paper.      *)
THEOREM IngestionsAreHonest == Spec => []IngestionIsHonest
<1>1. FetchInv => IngestionIsHonest
  BY DEF FetchInv, FileIsTrue, NoPart, Honest, IngestionIsHonest, TextIsWhole, EndsWithWhatItHas, At
<1>. QED
  BY <1>1, InitHolds, NextPreserves, PTL DEF Spec

(* PostgresArxivMetadataCacheRepository: metadata that was fetched stays,    *)
(* whoever writes of an error after it, from however old a reading.          *)
THEOREM FetchedStays == Spec => FetchedIsKept
<1>1. [Next]_fetch => [row = "fetched" => row' = "fetched"]_row
  BY DEF Next, fetch, Start, Ingest, FetchMetadata, Download, ReadCache, AskMetadata, MetadataAnswer, RecordMetadata,
    WriteCache, Noted, FindFile, AskPdf, PdfRefused, OpenFile, WriteBlock, ExceedLimit, BreakOff, CloseFile, Parse,
    Return, Restart, Tick
<1>. QED
  BY <1>1, PTL DEF Spec, FetchedIsKept
=============================================================================

--------------------------- MODULE ServicesProofs --------------------------
(***************************************************************************)
(* Proofs about the components of Services: each is proved as if it were   *)
(* alone, from its own Init and Next, and a step of Services is a step of  *)
(* one of them and leaves the others as they are.                          *)
(***************************************************************************)
EXTENDS Services, FiniteLemmas, SequenceTheorems, TLAPS

----------------------------------------------------------------------------
(* Discovery *)

(* The lock is with the coroutine that is fetching. *)
LockHeld == \A c \in Callers : pc[c] = "fetching" <=> lock = c

(* A request began before now, so its document is answered later than the  *)
(* instant its age is counted from.                                        *)
AgeCounted ==
    /\ \A c \in Callers : started[c] <= now
    /\ config # None => fetchedAt # None /\ fetchedAt <= config

(* What the cache remembers of the last request is what happened. *)
Remembered ==
    /\ failedAt # None => failure = failedAt
    /\ outcome = "ok" => config # None /\ fetchedAt = attempt
    /\ outcome = "failed" => failedAt # None

DiscoveryInv == TypeOK /\ LockHeld /\ AgeCounted /\ Remembered

LEMMA DiscoveryInit == Init => DiscoveryInv
BY DiscoveryAssumption, SMTT(20)
   DEF DiscoveryAssumption, Init, DiscoveryInv, TypeOK, LockHeld, AgeCounted, Remembered, Maybe

(* What is given when nothing is asked is a document or an error. *)
LEMMA AtHandTyped ==
    ASSUME TypeOK
    PROVE  AtHand \in Answer
BY DEF TypeOK, AtHand, Answer, Maybe

LEMMA GivenTyped ==
    ASSUME TypeOK, NEW c \in Callers, NEW reply \in Answer, Give(c, reply)
    PROVE  given' \in [Callers -> Maybe(Answer)]
BY DEF TypeOK, Give, Maybe

LEMMA AskKeeps ==
    ASSUME DiscoveryInv, NEW c \in Callers, Ask(c)
    PROVE  DiscoveryInv'
<1>1. AtHand \in Answer  BY AtHandTyped DEF DiscoveryInv
<1>2. given' \in [Callers -> Maybe(Answer)]
  BY <1>1, GivenTyped DEF Ask, DiscoveryInv, TypeOK
<1>3. TypeOK'  BY <1>2 DEF Ask, DiscoveryInv, TypeOK, cache, history
<1>4. LockHeld'  BY DEF Ask, DiscoveryInv, TypeOK, LockHeld, cache, history
<1>5. (AgeCounted /\ Remembered)'
  BY DEF Ask, DiscoveryInv, AgeCounted, Remembered, cache, history
<1> QED BY <1>3, <1>4, <1>5 DEF DiscoveryInv

LEMMA AcquireKeeps ==
    ASSUME DiscoveryInv, NEW c \in Callers, Acquire(c)
    PROVE  DiscoveryInv'
<1>1. AtHand \in Answer  BY AtHandTyped DEF DiscoveryInv
<1>2. given' \in [Callers -> Maybe(Answer)]
  BY <1>1, GivenTyped DEF Acquire, DiscoveryInv, TypeOK
<1>3. TypeOK'  BY <1>2 DEF Acquire, DiscoveryInv, TypeOK, Maybe, cache, history
<1>4. LockHeld'
  BY DiscoveryAssumption DEF DiscoveryAssumption, Acquire, DiscoveryInv, TypeOK, LockHeld, cache, history
<1>5. (AgeCounted /\ Remembered)'
  BY DEF Acquire, DiscoveryInv, TypeOK, AgeCounted, Remembered, cache, history
<1> QED BY <1>3, <1>4, <1>5 DEF DiscoveryInv

LEMMA FinishKeeps ==
    ASSUME DiscoveryInv, NEW c \in Callers, Finish(c)
    PROVE  DiscoveryInv'
<1>0. AtHand \in Answer  BY AtHandTyped DEF DiscoveryInv
<1>1. now \in Nat /\ started[c] \in Nat /\ started[c] <= now
  BY DEF DiscoveryInv, TypeOK, AgeCounted
<1>2. CASE FetchOk(c)
  <2>1. [doc |-> now] \in Answer  BY <1>1 DEF Answer
  <2>2. given' \in [Callers -> Maybe(Answer)]  BY <1>2, <2>1, GivenTyped DEF FetchOk, DiscoveryInv
  <2>3. TypeOK'  BY <1>1, <1>2, <2>2 DEF FetchOk, Leave, DiscoveryInv, TypeOK, Maybe
  <2>4. LockHeld'
    BY <1>2, DiscoveryAssumption DEF DiscoveryAssumption, FetchOk, Leave, DiscoveryInv, TypeOK, LockHeld
  <2>5. (AgeCounted /\ Remembered)'
    BY <1>1, <1>2, DiscoveryAssumption DEF DiscoveryAssumption, FetchOk, DiscoveryInv, TypeOK, AgeCounted, Remembered
  <2> QED BY <2>3, <2>4, <2>5 DEF DiscoveryInv
<1>3. CASE FetchEmpty(c)
  <2>1. [error |-> "empty"] \in Answer  BY DEF Answer
  <2>2. given' \in [Callers -> Maybe(Answer)]  BY <1>3, <2>1, GivenTyped DEF FetchEmpty, DiscoveryInv
  <2>3. TypeOK'  BY <1>1, <1>3, <2>2 DEF FetchEmpty, Leave, DiscoveryInv, TypeOK, Maybe
  <2>4. LockHeld'
    BY <1>3, DiscoveryAssumption DEF DiscoveryAssumption, FetchEmpty, Leave, DiscoveryInv, TypeOK, LockHeld
  <2>5. (AgeCounted /\ Remembered)'
    BY <1>1, <1>3 DEF FetchEmpty, DiscoveryInv, TypeOK, AgeCounted, Remembered
  <2> QED BY <2>3, <2>4, <2>5 DEF DiscoveryInv
<1>4. CASE FetchFails(c)
  <2>2. given' \in [Callers -> Maybe(Answer)]  BY <1>0, <1>4, GivenTyped DEF FetchFails, DiscoveryInv
  <2>3. TypeOK'  BY <1>1, <1>4, <2>2 DEF FetchFails, Leave, DiscoveryInv, TypeOK, Maybe
  <2>4. LockHeld'
    BY <1>4, DiscoveryAssumption DEF DiscoveryAssumption, FetchFails, Leave, DiscoveryInv, TypeOK, LockHeld
  <2>5. (AgeCounted /\ Remembered)'
    BY <1>1, <1>4, DiscoveryAssumption DEF DiscoveryAssumption, FetchFails, DiscoveryInv, TypeOK, AgeCounted, Remembered
  <2> QED BY <2>3, <2>4, <2>5 DEF DiscoveryInv
<1>5. CASE Cancel(c)
  <2>3. TypeOK'  BY <1>5 DEF Cancel, DiscoveryInv, TypeOK, Maybe, cache, history
  <2>4. LockHeld'
    BY <1>5, DiscoveryAssumption DEF DiscoveryAssumption, Cancel, DiscoveryInv, TypeOK, LockHeld
  <2>5. (AgeCounted /\ Remembered)'
    BY <1>5 DEF Cancel, DiscoveryInv, AgeCounted, Remembered, cache, history
  <2> QED BY <2>3, <2>4, <2>5 DEF DiscoveryInv
<1> QED BY <1>2, <1>3, <1>4, <1>5 DEF Finish

LEMMA TickKeeps ==
    ASSUME DiscoveryInv, Tick
    PROVE  DiscoveryInv'
BY DEF Tick, DiscoveryInv, TypeOK, LockHeld, AgeCounted, Remembered, cache, history

LEMMA DiscoveryNext == DiscoveryInv /\ [Next]_vars => DiscoveryInv'
<1> SUFFICES ASSUME DiscoveryInv, [Next]_vars PROVE DiscoveryInv'
  OBVIOUS
<1>1. CASE Tick  BY <1>1, TickKeeps
<1>2. ASSUME NEW c \in Callers, Ask(c) \/ Acquire(c) \/ Finish(c) PROVE DiscoveryInv'
  BY <1>2, AskKeeps, AcquireKeeps, FinishKeeps
<1>3. CASE UNCHANGED vars
  BY <1>3 DEF vars, cache, history, DiscoveryInv, TypeOK, LockHeld, AgeCounted, Remembered
<1> QED BY <1>1, <1>2, <1>3 DEF Next

(* A step of Services is one of Discovery or leaves it as it is. *)
LEMMA DiscoveryAlone == AllSpec => Spec
<1>1. AllInit => Init
  BY DEF AllInit
<1>2. [AllNext]_all => [Next]_vars
  BY DEF AllNext, all
<1> QED BY <1>1, <1>2, PTL DEF AllSpec, Spec

LEMMA DiscoveryInvariance == Spec => []DiscoveryInv
BY DiscoveryInit, DiscoveryNext, PTL DEF Spec

----------------------------------------------------------------------------
(* The cache, the lock and the answers are well typed: the document and    *)
(* the two instants of _oidc_config are numbers or missing.                *)
THEOREM TypeCorrect == AllSpec => []TypeOK
BY DiscoveryAlone, DiscoveryInvariance, PTL DEF DiscoveryInv

(* A request begins only when nothing fresh and no recent failure is       *)
(* remembered, and only by the holder of the lock.                         *)
LEMMA RequestsBegin ==
    ASSUME DiscoveryInv, NEW c \in Callers, pc[c] # "fetching", pc'[c] = "fetching", [Next]_vars
    PROVE  Acquire(c) /\ lock = None /\ ~Fresh /\ ~FailedLately
<1>1. pc' # pc  OBVIOUS
<1>2. PICK d \in Callers : Ask(d) \/ Acquire(d) \/ Finish(d)
  BY <1>1 DEF Next, Tick, vars
<1>3. ~Ask(d)
  BY DEF DiscoveryInv, TypeOK, Ask
<1>4. ~Finish(d)
  BY DEF DiscoveryInv, TypeOK, Finish, FetchOk, FetchEmpty, FetchFails, Cancel, Leave
<1>5. d = c
  BY <1>2, <1>3, <1>4 DEF DiscoveryInv, TypeOK, Acquire
<1> QED BY <1>2, <1>3, <1>4, <1>5 DEF Acquire, DiscoveryInv, TypeOK

(* Requests to the identity provider are spaced: none while another runs,  *)
(* none for a document younger than CacheTTL, none within NegativeTTL of a *)
(* failure, whoever waited for the lock meanwhile.                         *)
THEOREM RequestsSpaced == AllSpec => FetchesSpaced
<1>1. DiscoveryInv /\ [Next]_vars =>
        [\A c \in Callers : pc[c] # "fetching" /\ pc'[c] = "fetching" =>
             /\ \A d \in Callers : pc[d] # "fetching"
             /\ outcome = "ok" => now >= attempt + CacheTTL
             /\ outcome = "failed" => now >= failure + NegativeTTL]_vars
  <2> SUFFICES ASSUME DiscoveryInv, [Next]_vars, NEW c \in Callers, pc[c] # "fetching", pc'[c] = "fetching"
               PROVE  /\ \A d \in Callers : pc[d] # "fetching"
                      /\ outcome = "ok" => now >= attempt + CacheTTL
                      /\ outcome = "failed" => now >= failure + NegativeTTL
    OBVIOUS
  <2>1. lock = None /\ ~Fresh /\ ~FailedLately  BY RequestsBegin
  <2>2. \A d \in Callers : pc[d] # "fetching"
    BY <2>1, DiscoveryAssumption DEF DiscoveryAssumption, DiscoveryInv, LockHeld
  <2>3. outcome = "ok" => now >= attempt + CacheTTL
    BY <2>1, DiscoveryAssumption DEF DiscoveryAssumption, DiscoveryInv, TypeOK, Maybe, Remembered, AgeCounted, Fresh
  <2>4. outcome = "failed" => now >= failure + NegativeTTL
    BY <2>1, DiscoveryAssumption DEF DiscoveryAssumption, DiscoveryInv, TypeOK, Maybe, Remembered, FailedLately
  <2> QED BY <2>2, <2>3, <2>4
<1> QED BY <1>1, DiscoveryAlone, DiscoveryInvariance, PTL DEF Spec, FetchesSpaced

----------------------------------------------------------------------------
(* What a caller is given by the cache is justified. *)
Justified(reply) ==
    /\ "doc" \in DOMAIN reply =>
          \/ now < reply.doc + CacheTTL
          \/ failure' # None /\ now < failure' + NegativeTTL
    /\ reply = [error |-> "unavailable"] => config' = None

LEMMA FromTheCache ==
    ASSUME DiscoveryInv, Fresh \/ FailedLately, UNCHANGED <<config, failure>>
    PROVE  Justified(AtHand)
<1>1. CASE config = None
  BY <1>1 DEF AtHand, Justified
<1>2. CASE config # None
  <2>1. AtHand = [doc |-> config] /\ AtHand.doc = config  BY <1>2 DEF AtHand
  <2>2. now < config + CacheTTL \/ (failure' # None /\ now < failure' + NegativeTTL)
    BY <1>2, DiscoveryAssumption
       DEF DiscoveryAssumption, DiscoveryInv, TypeOK, Maybe, AgeCounted, Remembered, Fresh, FailedLately
  <2> QED BY <2>1, <2>2 DEF Justified
<1> QED BY <1>1, <1>2

(* A document older than CacheTTL is handed out only within NegativeTTL of *)
(* a failure, and the callers are refused only when no document is known.  *)
THEOREM AnswersAreJustified == AllSpec => AnswersJustified
<1>1. DiscoveryInv /\ [Next]_vars =>
        [\A c \in Callers : given'[c] # given[c] =>
          /\ "doc" \in DOMAIN given'[c] =>
                \/ now < given'[c].doc + CacheTTL
                \/ failure' # None /\ now < failure' + NegativeTTL
          /\ given'[c] = [error |-> "unavailable"] => config' = None]_vars
  <2> SUFFICES ASSUME DiscoveryInv, [Next]_vars, NEW c \in Callers, given'[c] # given[c]
               PROVE  Justified(given'[c])
    BY DEF Justified
  <2>0. given \in [Callers -> Maybe(Answer)] /\ now \in Nat  BY DEF DiscoveryInv, TypeOK
  <2>1. PICK d \in Callers : Ask(d) \/ Acquire(d) \/ Finish(d)
    BY DEF Next, Tick, vars
  <2>2. CASE Ask(d)
    <3>1. (Fresh \/ FailedLately) /\ Give(d, AtHand) /\ UNCHANGED <<config, failure>>
      BY <2>2 DEF Ask, cache, history
    <3>2. given'[c] = AtHand  BY <2>0, <3>1 DEF Give
    <3> QED BY <3>1, <3>2, FromTheCache
  <2>3. CASE Acquire(d)
    <3>1. (Fresh \/ FailedLately) /\ Give(d, AtHand) /\ UNCHANGED <<config, failure>>
      BY <2>3 DEF Acquire, cache, history
    <3>2. given'[c] = AtHand  BY <2>0, <3>1 DEF Give
    <3> QED BY <3>1, <3>2, FromTheCache
  <2>4. CASE FetchOk(d)
    <3>1. given'[c] = [doc |-> now]  BY <2>0, <2>4 DEF FetchOk, Give
    <3> QED BY <2>0, <3>1, DiscoveryAssumption DEF DiscoveryAssumption, Justified
  <2>5. CASE FetchEmpty(d)
    <3>1. given'[c] = [error |-> "empty"]  BY <2>0, <2>5 DEF FetchEmpty, Give
    <3> QED BY <3>1 DEF Justified
  <2>6. CASE FetchFails(d)
    <3>1. given'[c] = AtHand /\ failure' = now /\ config' = config
      BY <2>0, <2>6 DEF FetchFails, Give
    <3>2. now # None /\ now < now + NegativeTTL
      BY <2>0, DiscoveryAssumption DEF DiscoveryAssumption
    <3> QED BY <3>1, <3>2 DEF Justified, AtHand
  <2>7. ~Cancel(d)  BY DEF Cancel
  <2> QED BY <2>1, <2>2, <2>3, <2>4, <2>5, <2>6, <2>7 DEF Finish
<1> QED BY <1>1, DiscoveryAlone, DiscoveryInvariance, PTL DEF Spec, AnswersJustified

----------------------------------------------------------------------------
LEMMA Alone ==
    /\ AllInit => O!Init /\ R!Init /\ G!Init /\ W!Init /\ E!Init /\ V!Init /\ C!Init
    /\ [AllNext]_all => /\ [O!Next]_(O!vars) /\ [R!Next]_(R!vars) /\ [G!Next]_(G!vars)
                        /\ [W!Next]_(W!vars) /\ [E!Next]_(E!vars) /\ [V!Next]_(V!vars)
                        /\ [C!Next]_(C!vars)
<1>1. AllInit => O!Init /\ R!Init /\ G!Init /\ W!Init /\ E!Init /\ V!Init /\ C!Init
  BY DEF AllInit
<1>2. [AllNext]_all => [O!Next]_(O!vars)
  BY DEF AllNext, all, market, O!vars
<1>3. [AllNext]_all => [R!Next]_(R!vars)
  BY DEF AllNext, all, retention, R!vars
<1>4. [AllNext]_all => [G!Next]_(G!vars)
  BY DEF AllNext, all, recognition, G!vars
<1>5. [AllNext]_all => [W!Next]_(W!vars)
  BY DEF AllNext, all, ocr, W!vars
<1>6. [AllNext]_all => [E!Next]_(E!vars)
  BY DEF AllNext, all, edge, E!vars
<1>7. [AllNext]_all => [V!Next]_(V!vars)
  BY DEF AllNext, all, review, V!vars
<1>8. [AllNext]_all => [C!Next]_(C!vars)
  BY DEF AllNext, all, capture, C!vars
<1> QED BY <1>1, <1>2, <1>3, <1>4, <1>5, <1>6, <1>7, <1>8

----------------------------------------------------------------------------
(* Capture *)
(* A value that was recognised was recognised in the image at hand. *)
ReadFrom(r) == r.value \in Photos => r.image = r.value

ValuesRead ==
    /\ confirmed \in Photos => image = confirmed
    /\ saving # None => ReadFrom(saving)
    /\ \A r \in posted : ReadFrom(r)

(* Unless the photo was replaced or taken away while a cut or a scan of it *)
(* was awaited, the image is of the photo on screen, and so is what is     *)
(* previewed, cut, scanned and saved.                                      *)
OnScreen ==
    /\ {preview, image} \subseteq {None, original}
    /\ \A r \in pending : r.photo \in {None, original}

(* The dialog is left with nothing on screen, a late answer or not.        *)
Left == stage = "idle" => original = None /\ preview = None /\ image = None

ShownSaved(r) == r.late = FALSE => r.image \in {None, r.for}

CaptureInv ==
    /\ C!TypeOK /\ ValuesRead /\ Left
    /\ late = FALSE => OnScreen
    /\ saving # None => ShownSaved(saving)
    /\ \A r \in posted : ShownSaved(r)

LEMMA CaptureInit == C!Init => CaptureInv
<1> SUFFICES ASSUME C!Init PROVE CaptureInv
  OBVIOUS
<1>1. C!TypeOK
  BY DEF C!Init, C!TypeOK
<1>2. ValuesRead
  BY CaptureAssumption DEF CaptureAssumption, C!Init, ValuesRead
<1>3. OnScreen /\ Left
  BY DEF C!Init, OnScreen, Left
<1>4. saving = None /\ posted = {}
  BY DEF C!Init
<1> QED BY <1>1, <1>2, <1>3, <1>4 DEF CaptureInv

(* Something is asked for; of the photo on screen, if that is what is to   *)
(* be known.                                                               *)
LEMMA AskKeepsPending ==
    ASSUME C!TypeOK, NEW of \in {"cut", "scan"}, NEW photo \in Photos \union {None}, C!Ask(of, photo)
    PROVE  /\ pending' \subseteq [id : Nat, of : {"cut", "scan"}, photo : Photos \union {None}]
           /\ clicks' \in Nat
           /\ \A r \in pending' : r \in pending \/ r.photo = photo
BY DEF C!TypeOK, C!Ask

(* Photos come and go. *)
LEMMA PhotoKeeps ==
    ASSUME CaptureInv, (\E photo \in Photos : C!Choose(photo)) \/ C!Cancel \/ C!BackToCrop \/ C!Type
    PROVE  CaptureInv'
<1>1. C!TypeOK'
  BY CaptureAssumption DEF CaptureAssumption, CaptureInv, C!TypeOK, C!Choose, C!Cancel, C!BackToCrop, C!Type
<1>2. ValuesRead'
  BY CaptureAssumption
     DEF CaptureAssumption, CaptureInv, ValuesRead, C!Choose, C!Cancel, C!BackToCrop, C!Type
<1>3. Left'
  BY DEF CaptureInv, Left, C!Choose, C!Cancel, C!BackToCrop, C!Type
<1>4. ASSUME late' = FALSE PROVE OnScreen'
  <2>1. CASE \E photo \in Photos : C!Choose(photo)
    BY <1>4, <2>1 DEF CaptureInv, OnScreen, Left, C!Choose
  <2>2. CASE C!Cancel  BY <1>4, <2>2 DEF OnScreen, C!Cancel
  <2>3. CASE C!BackToCrop \/ C!Type
    BY <1>4, <2>3 DEF CaptureInv, OnScreen, C!BackToCrop, C!Type
  <2> QED BY <2>1, <2>2, <2>3
<1>5. UNCHANGED <<saving, posted>>
  BY DEF C!Choose, C!Cancel, C!BackToCrop, C!Type
<1> QED BY <1>1, <1>2, <1>3, <1>4, <1>5 DEF CaptureInv

(* Cuts and scans are asked for. *)
LEMMA AskingKeeps ==
    ASSUME CaptureInv, C!GoToSerialCrop \/ C!StartScan
    PROVE  CaptureInv'
<1>1. /\ UNCHANGED <<original, preview, image, confirmed, saving, posted, chosen, written, late>>
      /\ stage # "idle" /\ stage' \in {"crop", "scanning"}
  BY DEF C!GoToSerialCrop, C!StartScan
<1>2. \E of \in {"cut", "scan"}, photo \in {original, preview} : C!Ask(of, photo)
  BY DEF C!GoToSerialCrop, C!StartScan
<1>3. PICK of \in {"cut", "scan"}, photo \in {original, preview} : C!Ask(of, photo)
  BY <1>2
<1>4. C!TypeOK /\ photo \in Photos \union {None}
  BY DEF CaptureInv, C!TypeOK
<1>5. /\ pending' \subseteq [id : Nat, of : {"cut", "scan"}, photo : Photos \union {None}]
      /\ clicks' \in Nat
      /\ \A r \in pending' : r \in pending \/ r.photo = photo
  BY <1>3, <1>4, AskKeepsPending
<1>6. C!TypeOK'  BY <1>1, <1>4, <1>5 DEF C!TypeOK
<1>7. ValuesRead' /\ Left'
  BY <1>1 DEF CaptureInv, ValuesRead, Left
<1>8. late' = FALSE => OnScreen'
  BY <1>1, <1>5 DEF CaptureInv, OnScreen
<1> QED BY <1>1, <1>6, <1>7, <1>8 DEF CaptureInv

(* They arrive or fail, at any stage. *)
LEMMA AnswersKeep ==
    ASSUME CaptureInv, NEW r \in pending, C!CutMade(r) \/ C!ScanAnswered(r) \/ C!ScanFailed(r)
    PROVE  CaptureInv'
<1>1. /\ pending' \subseteq pending /\ r.photo \in Photos \union {None}
      /\ UNCHANGED <<original, saving, posted, clicks, late>>
  BY DEF CaptureInv, C!TypeOK, C!CutMade, C!ScanAnswered, C!ScanFailed
<1>2. CASE C!CutMade(r)
  <2>1. /\ preview' = r.photo \/ preview' = preview
        /\ UNCHANGED <<image, confirmed>>
        /\ stage' = "serial_crop" \/ UNCHANGED <<preview, stage>>
    BY <1>2 DEF C!CutMade
  <2>2. C!TypeOK'  BY <1>1, <2>1 DEF CaptureInv, C!TypeOK
  <2>3. ValuesRead' /\ Left'
    BY <1>1, <2>1 DEF CaptureInv, ValuesRead, Left
  <2>4. late' = FALSE => OnScreen'
    BY <1>1, <2>1 DEF CaptureInv, OnScreen
  <2> QED BY <1>1, <2>2, <2>3, <2>4 DEF CaptureInv
<1>3. CASE C!ScanAnswered(r)
  <2>1. /\ image' = r.photo /\ r.photo # None /\ confirmed' \in {r.photo, None}
        /\ preview' = preview /\ stage' = "result"
    BY <1>3 DEF C!ScanAnswered
  <2>2. C!TypeOK'  BY <1>1, <2>1 DEF CaptureInv, C!TypeOK
  <2>3. ValuesRead' /\ Left'
    BY <1>1, <2>1, CaptureAssumption DEF CaptureAssumption, CaptureInv, ValuesRead, Left
  <2>4. late' = FALSE => OnScreen'
    BY <1>1, <2>1 DEF CaptureInv, OnScreen
  <2> QED BY <1>1, <2>2, <2>3, <2>4 DEF CaptureInv
<1>4. CASE C!ScanFailed(r)
  <2>1. UNCHANGED <<image, confirmed, preview>> /\ stage' \in {"result", "serial_crop"}
    BY <1>4 DEF C!ScanFailed
  <2>2. C!TypeOK'  BY <1>1, <2>1 DEF CaptureInv, C!TypeOK
  <2>3. ValuesRead' /\ Left'
    BY <1>1, <2>1 DEF CaptureInv, ValuesRead, Left
  <2>4. late' = FALSE => OnScreen'
    BY <1>1, <2>1 DEF CaptureInv, OnScreen
  <2> QED BY <1>1, <2>2, <2>3, <2>4 DEF CaptureInv
<1> QED BY <1>2, <1>3, <1>4

LEMMA SavingKeeps ==
    ASSUME CaptureInv, C!SaveReading \/ C!Saved \/ C!SaveRefused
    PROVE  CaptureInv'
<1>1. CASE C!SaveReading
  <2> DEFINE r == [image |-> image, value |-> confirmed, for |-> original, late |-> late]
  <2>1. /\ saving' = r
        /\ UNCHANGED <<stage, original, preview, image, confirmed, pending, posted, clicks, late>>
    BY <1>1 DEF C!SaveReading
  <2>2. r.image = image /\ r.value = confirmed /\ r.for = original /\ r.late = late
    OBVIOUS
  <2> HIDE DEF r
  <2>3. C!TypeOK'  BY <2>1 DEF CaptureInv, C!TypeOK
  <2>4. ValuesRead' /\ Left'
    BY <2>1, <2>2 DEF CaptureInv, ValuesRead, ReadFrom, Left
  <2>5. late' = FALSE => OnScreen'  BY <2>1 DEF CaptureInv, OnScreen
  <2>6. ShownSaved(r)  BY <2>2 DEF CaptureInv, OnScreen, ShownSaved
  <2> QED BY <2>1, <2>3, <2>4, <2>5, <2>6 DEF CaptureInv
<1>2. CASE C!Saved
  <2>1. /\ saving # None /\ posted' = posted \union {saving} /\ saving' = None
        /\ UNCHANGED <<pending, clicks>>
    BY <1>2 DEF C!Saved
  <2>2. C!TypeOK'  BY <1>2 DEF CaptureInv, C!TypeOK, C!Saved
  <2>3. ValuesRead'  BY <1>2, CaptureAssumption DEF CaptureAssumption, CaptureInv, ValuesRead, C!Saved
  <2>4. Left'  BY <1>2 DEF CaptureInv, Left, C!Saved
  <2>5. late' = FALSE => OnScreen'  BY <1>2 DEF CaptureInv, OnScreen, C!Saved
  <2> QED BY <2>1, <2>2, <2>3, <2>4, <2>5 DEF CaptureInv
<1>3. CASE C!SaveRefused
  BY <1>3 DEF C!SaveRefused, CaptureInv, C!TypeOK, ValuesRead, OnScreen, Left
<1> QED BY <1>1, <1>2, <1>3

LEMMA CaptureNext == CaptureInv /\ [C!Next]_(C!vars) => CaptureInv'
<1> SUFFICES ASSUME CaptureInv, [C!Next]_(C!vars) PROVE CaptureInv'
  OBVIOUS
<1>1. CASE C!Next  BY <1>1, PhotoKeeps, AskingKeeps, AnswersKeep, SavingKeeps DEF C!Next
<1>2. CASE UNCHANGED C!vars
  BY <1>2 DEF C!vars, CaptureInv, C!TypeOK, ValuesRead, OnScreen, Left
<1> QED BY <1>1, <1>2

(* However often photos are chosen, cut, scanned and discarded, and        *)
(* however late cuts and answers arrive, the file stored with a reading is *)
(* the one its value was read from - and a cut of the photo that was on    *)
(* screen, unless that one replaced, or followed, a photo of which a cut   *)
(* or a scan was still awaited.                                            *)
THEOREM EvidenceCorrect == AllSpec => []EvidenceMatchesValue
<1>1. AllInit => CaptureInv  BY Alone, CaptureInit
<1>2. CaptureInv /\ [AllNext]_all => CaptureInv'  BY Alone, CaptureNext
<1>3. CaptureInv => EvidenceMatchesValue
  BY DEF CaptureInv, ValuesRead, ReadFrom, ShownSaved, EvidenceMatchesValue, C!EvidenceMatchesValue
<1> QED BY <1>1, <1>2, <1>3, PTL DEF AllSpec

----------------------------------------------------------------------------
(* Edge *)

(* What the client was sent while the limit held. *)
Answering ==
    /\ app \in {"called", "reading", "has all", "cut off"} => wire = <<>>
    /\ app = "answering" => wire = <<"start">>
    /\ app = "answered" => wire = <<"start", "body">>
    /\ app = "done" => wire \in {<<>>, <<"start">>, <<"start", "body">>}

(* And once it was exceeded: the rejection, with the first message. *)
Rejecting ==
    /\ app \in {"cut off", "answering", "answered", "done"}
    /\ app # "done" => wire = IF sent_413 THEN E!Rejection ELSE <<>>
    /\ app = "done" => wire = E!Rejection

Amounts ==
    /\ received \in Nat /\ taken \in Nat /\ taken <= Limit
    /\ exceeded = FALSE => taken = received

EdgeInv ==
    /\ Amounts
    /\ exceeded \in BOOLEAN /\ (exceeded = FALSE => sent_413 = FALSE)
    /\ app \in {"called", "reading", "has all", "cut off", "answering", "answered", "done"}
    /\ E!TooBig =>
          /\ exceeded = FALSE
          /\ \/ app = "called" /\ wire = <<>>
             \/ app = "done" /\ wire = E!Rejection
    /\ ~E!TooBig => IF exceeded THEN Rejecting ELSE Answering

LEMMA TwoMessages ==
    ASSUME NEW Texts, NEW m \in Texts, NEW n \in Texts
    PROVE  /\ <<m, n>> \in Seq(Texts)
           /\ Append(<<>>, m) = <<m>> /\ Append(<<m>>, n) = <<m, n>> /\ <<>> \o <<m, n>> = <<m, n>>
<1> DEFINE s == Append(<<m>>, n)
           t == <<m, n>>
<1>1. <<m>> \in Seq(Texts) /\ t \in Seq(Texts) /\ Append(<<>>, m) = <<m>>
  OBVIOUS
<1>2. s \in Seq(Texts) /\ Len(s) = 2 /\ s[1] = m /\ s[2] = n
  BY <1>1, AppendProperties
<1>3. Len(t) = 2 /\ t[1] = m /\ t[2] = n
  OBVIOUS
<1> HIDE DEF s, t
<1>4. \A i \in 1..Len(s) : s[i] = t[i]
  BY <1>2, <1>3
<1>5. s = t  BY <1>1, <1>2, <1>3, <1>4, SeqEqual
<1>6. <<>> \o t = t  BY <1>1, ConcatEmptySeq
<1> QED BY <1>1, <1>5, <1>6 DEF s, t

LEMMA Messages ==
    /\ Append(<<>>, "start") = <<"start">> /\ Append(<<"start">>, "body") = <<"start", "body">>
    /\ <<>> \o E!Rejection = E!Rejection
<1> DEFINE Texts == {"start", "body", "413 start", "413 body"}
           start == "start"
           body  == "body"
           first == "413 start"
           last  == "413 body"
<1>1. start \in Texts /\ body \in Texts /\ first \in Texts /\ last \in Texts
  OBVIOUS
<1> HIDE DEF Texts, start, body, first, last
<1>2. Append(<<>>, start) = <<start>> /\ Append(<<start>>, body) = <<start, body>>
  BY <1>1, TwoMessages
<1>3. <<>> \o <<first, last>> = <<first, last>>
  BY <1>1, TwoMessages
<1> QED BY <1>2, <1>3 DEF start, body, first, last, E!Rejection

LEMMA StaysDeclared == UNCHANGED declared => (E!TooBig' <=> E!TooBig)
BY DEF E!TooBig

LEMMA EdgeInit == E!Init => EdgeInv
<1>1. E!Init => Amounts
  BY EdgeAssumption DEF EdgeAssumption, E!Init, Amounts
<1> QED BY <1>1 DEF E!Init, EdgeInv, Answering

LEMMA AmountsKept == EdgeInv /\ [E!Next]_(E!vars) => Amounts'
<1> SUFFICES ASSUME EdgeInv, [E!Next]_(E!vars) PROVE Amounts'
  OBVIOUS
<1>0. Amounts  BY DEF EdgeInv
<1>1. CASE UNCHANGED <<received, taken, exceeded>>
  BY <1>0, <1>1 DEF Amounts
<1>2. ASSUME NEW n \in Chunks, NEW last \in BOOLEAN, E!Receive(n, last) PROVE Amounts'
  <2>1. n \in Nat /\ Limit \in Nat  BY EdgeAssumption DEF EdgeAssumption
  <2>2. exceeded = FALSE /\ received \in Nat /\ taken \in Nat /\ taken = received /\ taken <= Limit
    BY <1>0, <1>2 DEF EdgeInv, Amounts, Rejecting, E!Receive
  <2>3. CASE received + n > Limit
    <3>1. received' = received + n /\ exceeded' = TRUE /\ taken' = taken
      BY <1>2, <2>3 DEF E!Receive
    <3>2. received' \in Nat /\ taken' \in Nat /\ taken' <= Limit
      BY <2>1, <2>2, <3>1
    <3> QED BY <3>1, <3>2 DEF Amounts
  <2>4. CASE ~(received + n > Limit)
    <3>1. received' = received + n /\ exceeded' = exceeded /\ taken' = taken + n
      BY <1>2, <2>4 DEF E!Receive
    <3>2. received' \in Nat /\ taken' \in Nat
      BY <2>1, <2>2, <3>1
    <3>3. taken' <= Limit  BY <2>1, <2>2, <2>4, <3>1
    <3>4. exceeded' = FALSE => taken' = received'  BY <2>2, <3>1
    <3> QED BY <3>2, <3>3, <3>4 DEF Amounts
  <2> QED BY <2>3, <2>4
<1> QED
  BY <1>1, <1>2 DEF E!Next, E!Start, E!Disconnected, E!AnswerStarts, E!AnswerGoesOn, E!Ends, E!vars

LEMMA EdgeNext == EdgeInv /\ [E!Next]_(E!vars) => EdgeInv'
<1> SUFFICES ASSUME EdgeInv, [E!Next]_(E!vars) PROVE EdgeInv'
  OBVIOUS
<1> USE StaysDeclared
<1>a. Amounts'  BY AmountsKept DEF EdgeInv
<1>1. CASE E!Start
  BY <1>a, <1>1 DEF EdgeInv, Answering, Rejecting, E!Start
<1>2. ASSUME NEW n \in Chunks, NEW last \in BOOLEAN, E!Receive(n, last) PROVE EdgeInv'
  <2>1. ~E!TooBig /\ exceeded = FALSE /\ app = "reading" /\ wire = <<>>
    BY <1>2 DEF EdgeInv, Answering, Rejecting, E!Receive
  <2>2. /\ UNCHANGED <<declared, sent_413, wire>>
        /\ \/ exceeded' = TRUE /\ app' = "cut off"
           \/ exceeded' = FALSE /\ app' \in {"has all", "reading"}
    BY <1>2, <2>1 DEF E!Receive
  <2> QED BY <1>a, <2>1, <2>2 DEF EdgeInv, Answering, Rejecting
<1>3. CASE E!Disconnected
  BY <1>a, <1>3 DEF EdgeInv, Answering, Rejecting, E!Disconnected
<1>4. CASE E!AnswerStarts
  BY <1>a, <1>4, Messages DEF EdgeInv, Answering, Rejecting, E!AnswerStarts, E!Send
<1>5. CASE E!AnswerGoesOn
  BY <1>a, <1>5, Messages DEF EdgeInv, Answering, Rejecting, E!AnswerGoesOn, E!Send
<1>6. CASE E!Ends
  BY <1>a, <1>6, Messages DEF EdgeInv, Answering, Rejecting, E!Ends
<1>7. CASE UNCHANGED E!vars
  BY <1>a, <1>7 DEF EdgeInv, Answering, Rejecting, E!vars
<1> QED BY <1>1, <1>2, <1>3, <1>4, <1>5, <1>6, <1>7 DEF E!Next

(* A body over the limit, declared or not, is answered by one 413 and by   *)
(* nothing else, and no more of it than the limit is handed on, for any    *)
(* limit, any chunks and any application.                                  *)
THEOREM OversizedBodiesAreRefused == AllSpec => []OversizedRefused
<1>1. AllInit => EdgeInv  BY Alone, EdgeInit
<1>2. EdgeInv /\ [AllNext]_all => EdgeInv'  BY Alone, EdgeNext
<1>3. EdgeInv => OversizedRefused
  BY DEF EdgeInv, Amounts, Answering, Rejecting, OversizedRefused, E!OversizedRefused
<1> QED BY <1>1, <1>2, <1>3, PTL DEF AllSpec

----------------------------------------------------------------------------
(* OcrService *)

LEMMA Larger == \A a, b \in Int : W!Max({a, b}) = IF a >= b THEN a ELSE b
<1> TAKE a, b \in Int
<1> DEFINE m == IF a >= b THEN a ELSE b
<1>1. m \in {a, b} /\ \A y \in {a, b} : m >= y
  OBVIOUS
<1>2. \A x \in {a, b} : (\A y \in {a, b} : x >= y) => x = m
  OBVIOUS
<1> QED BY <1>1, <1>2 DEF W!Max

LEMMA Smaller == \A a, b \in Int : W!Min({a, b}) = IF a <= b THEN a ELSE b
<1> TAKE a, b \in Int
<1> DEFINE m == IF a <= b THEN a ELSE b
<1>1. m \in {a, b} /\ \A y \in {a, b} : m <= y
  OBVIOUS
<1>2. \A x \in {a, b} : (\A y \in {a, b} : x <= y) => x = m
  OBVIOUS
<1> QED BY <1>1, <1>2 DEF W!Min

Area(s) == s.width \in Nat \ {0} /\ s.height \in Nat \ {0}

LEMMA Quotient ==
    ASSUME NEW a \in Nat, NEW side \in Nat \ {0}, NEW m \in Nat, a <= side
    PROVE  (a * m) \div side \in 0..m
<1> DEFINE q == (a * m) \div side
<1>1. a * m \in Nat /\ a * m <= side * m
  OBVIOUS
<1>2. q \in Int /\ q >= 0 /\ side * q <= a * m
  BY <1>1
<1>3. side * q <= side * m
  BY <1>1, <1>2
<1> HIDE DEF q
<1>4. q <= m
  BY <1>2, <1>3
<1> QED BY <1>2, <1>4 DEF q

(* The working image is not empty and no side of it is over the limit.     *)
LEMMA UpscaledFits ==
    ASSUME NEW s, Area(s), NEW factor \in Nat \ {0}
    PROVE  /\ W!Upscaled(s, factor).width \in 1..MaxUpscaled
           /\ W!Upscaled(s, factor).height \in 1..MaxUpscaled
<1> DEFINE side == W!Max({s.width, s.height})
           w == (s.width * MaxUpscaled) \div side
           h == (s.height * MaxUpscaled) \div side
<1>1. MaxUpscaled \in Nat \ {0}  BY OcrAssumption DEF OcrAssumption
<1>2. side \in Nat \ {0} /\ s.width <= side /\ s.height <= side
  BY Larger DEF Area
<1> HIDE DEF side
<1>3. CASE factor * side <= MaxUpscaled
  <2>1. W!Upscaled(s, factor) = W!Size(factor * s.width, factor * s.height)
    BY <1>3 DEF W!Upscaled, side
  <2>2. factor * s.width \in 1..MaxUpscaled /\ factor * s.height \in 1..MaxUpscaled
    BY <1>1, <1>2, <1>3 DEF Area
  <2> QED BY <2>1, <2>2 DEF W!Size
<1>4. CASE ~(factor * side <= MaxUpscaled)
  <2>1. W!Upscaled(s, factor) = W!Size(W!Max({1, w}), W!Max({1, h}))
    BY <1>4 DEF W!Upscaled, side
  <2>2. w \in 0..MaxUpscaled /\ h \in 0..MaxUpscaled
    BY <1>1, <1>2, Quotient DEF Area
  <2>3. W!Max({1, w}) \in 1..MaxUpscaled /\ W!Max({1, h}) \in 1..MaxUpscaled
    BY <1>1, <2>2, Larger
  <2> QED BY <2>1, <2>3 DEF W!Size
<1> QED BY <1>3, <1>4

LEMMA DisplayArea ==
    ASSUME NEW im, Area(im), NEW y \in W!StripRows(im)
    PROVE  Area(W!Display(im, y))
<1> DEFINE strip == W!Max({20, im.height \div 20})
           h == W!Min({im.height, y + 2 * strip}) - W!Max({0, y - strip})
           w == (9 * im.width) \div 10 - im.width \div 10
<1>1. y \in Int  BY DEF W!StripRows, Area
<1>2. strip \in Int  BY Larger DEF Area
<1> HIDE DEF strip
<1>3. h \in Int  BY <1>1, <1>2, Larger, Smaller DEF Area
<1>4. w \in Int  BY DEF Area
<1>5. W!Display(im, y) = IF h < 10 \/ w < 20 THEN W!Size(im.width, im.height) ELSE W!Size(w, h)
  BY DEF W!Display, strip
<1> HIDE DEF h, w
<1> QED BY <1>3, <1>4, <1>5 DEF W!Size, Area

Stages == {"idle", "stored", "ready", "building", "prepared", "reading", "returned", "done"}

Stored(c) == stageOf[c] \notin {"idle", "done"}

Prepared(c) == stageOf[c] \in {"prepared", "reading"} \/ (stageOf[c] = "building" /\ kind[c] = "serial")

OfCall(c) ==
    /\ stageOf[c] # "idle" => kind[c] \in {"scan", "serial"} /\ Area(upload[c])
    /\ W!Upload(c) \in files \ spilled <=> Stored(c)
    /\ W!Upload(c) \in spilled => stageOf[c] = "done"
    /\ W!Work(c) \in files \ spilled <=> Prepared(c)
    /\ W!Work(c) \in spilled => stageOf[c] \in {"returned", "done"}
    /\ work[c] # None => work[c].width \in 1..MaxUpscaled /\ work[c].height \in 1..MaxUpscaled

OcrTypes ==
    stageOf \in [Calls -> Stages] /\ DOMAIN kind = Calls /\ DOMAIN upload = Calls /\ DOMAIN work = Calls

OcrInv == OcrTypes /\ \A c \in Calls : OfCall(c)

LEMMA FilesDiffer ==
    \A c, d : /\ W!Upload(c) # W!Work(d)
              /\ W!Upload(c) = W!Upload(d) => c = d
              /\ W!Work(c) = W!Work(d) => c = d
BY DEF W!Upload, W!Work

(* Whatever size an image of the store is prepared in, it fits. *)
LEMMA PreparedFits ==
    ASSUME NEW c \in Calls, Area(upload[c]), NEW size \in W!Prepared(c)
    PROVE  size.width \in 1..MaxUpscaled /\ size.height \in 1..MaxUpscaled
<1> DEFINE whole == W!Size(upload[c].width, upload[c].height)
<1>1. Area(whole)  BY DEF Area, W!Size
<1> HIDE DEF whole
<1>2. \/ size = W!Upscaled(whole, 3) \/ size = W!Upscaled(whole, 4)
      \/ \E y \in W!StripRows(upload[c]) : size = W!Upscaled(W!Display(upload[c], y), 4)
  BY DEF W!Prepared, whole
<1>3. CASE \E y \in W!StripRows(upload[c]) : size = W!Upscaled(W!Display(upload[c], y), 4)
  BY <1>3, DisplayArea, UpscaledFits
<1>4. CASE size = W!Upscaled(whole, 3) \/ size = W!Upscaled(whole, 4)
  BY <1>1, <1>4, UpscaledFits
<1> QED BY <1>2, <1>3, <1>4

LEMMA OcrInit == W!Init => OcrInv
BY DEF W!Init, OcrInv, OcrTypes, OfCall, Stages, Stored, Prepared

(* A call that does not move, and whose files stay, is as it was. *)
LEMMA Untouched ==
    ASSUME NEW d \in Calls, OfCall(d),
           stageOf'[d] = stageOf[d] /\ kind'[d] = kind[d] /\ upload'[d] = upload[d] /\ work'[d] = work[d],
           W!Upload(d) \in files' <=> W!Upload(d) \in files,
           W!Work(d) \in files' <=> W!Work(d) \in files,
           W!Upload(d) \in spilled' <=> W!Upload(d) \in spilled,
           W!Work(d) \in spilled' <=> W!Work(d) \in spilled
    PROVE  OfCall(d)'
BY DEF OfCall, Stored, Prepared

LEMMA ReceiveKeeps ==
    ASSUME OcrInv, NEW c \in Calls, NEW k \in {"scan", "serial"}, NEW im \in Images, W!Receive(c, k, im)
    PROVE  OcrInv'
<1>1. Area(im)  BY OcrAssumption DEF OcrAssumption, Area
<1>2. OcrTypes'  BY DEF OcrInv, OcrTypes, W!Receive, W!Goes, Stages
<1>3. OfCall(c)'
  BY <1>1, FilesDiffer DEF OcrInv, OcrTypes, OfCall, Stored, Prepared, W!Receive, W!Goes
<1>4. ASSUME NEW d \in Calls, d # c PROVE OfCall(d)'
  BY <1>4, FilesDiffer, Untouched DEF OcrInv, OcrTypes, W!Receive, W!Goes
<1> QED BY <1>2, <1>3, <1>4 DEF OcrInv

LEMMA ReaderKeeps ==
    ASSUME OcrInv, NEW c \in Calls, W!GetReader(c) \/ W!ReaderBuilt(c)
    PROVE  OcrInv'
<1>1. OcrTypes'
  BY DEF OcrInv, OcrTypes, W!GetReader, W!ReaderBuilt, W!WithReader, W!Goes, Stages
<1>2. OfCall(c)'
  BY DEF OcrInv, OcrTypes, OfCall, Stored, Prepared, W!GetReader, W!ReaderBuilt, W!NeedsReader,
         W!WithReader, W!Goes
<1>3. ASSUME NEW d \in Calls, d # c PROVE OfCall(d)'
  BY <1>3, Untouched DEF OcrInv, OcrTypes, W!GetReader, W!ReaderBuilt, W!WithReader, W!Goes
<1> QED BY <1>1, <1>2, <1>3 DEF OcrInv

LEMMA LeavesKeeps ==
    ASSUME OcrInv, NEW c \in Calls, NEW a, W!Leaves(c, a),
           stageOf[c] \notin {"idle", "returned", "done"}
    PROVE  OcrInv'
<1>1. OcrTypes'  BY DEF OcrInv, OcrTypes, W!Leaves, W!Returns, W!Goes, Stages
<1>2. OfCall(c)'
  BY FilesDiffer DEF OcrInv, OcrTypes, OfCall, Stored, Prepared, W!Leaves, W!Returns, W!Goes
<1>3. ASSUME NEW d \in Calls, d # c PROVE OfCall(d)'
  BY <1>3, FilesDiffer, Untouched DEF OcrInv, OcrTypes, W!Leaves, W!Returns, W!Goes
<1> QED BY <1>1, <1>2, <1>3 DEF OcrInv

LEMMA PreprocessKeeps ==
    ASSUME OcrInv, NEW c \in Calls, W!Preprocess(c)
    PROVE  OcrInv'
<1>1. stageOf[c] \in {"ready", "stored"} /\ kind[c] \in {"scan", "serial"} /\ Area(upload[c])
  BY DEF OcrInv, OfCall, W!Preprocess, W!NeedsImage
<1>2. PICK size \in W!Prepared(c) : work' = [work EXCEPT ![c] = size]
  BY DEF W!Preprocess
<1>3. size.width \in 1..MaxUpscaled /\ size.height \in 1..MaxUpscaled
  BY <1>1, <1>2, PreparedFits
<1>4. OcrTypes'  BY <1>2 DEF OcrInv, OcrTypes, W!Preprocess, W!Goes, Stages
<1>5. OfCall(c)'
  <2>1. /\ stageOf'[c] = IF kind[c] = "scan" THEN "reading" ELSE "prepared"
        /\ files' = files \union {W!Work(c)} /\ UNCHANGED <<kind, upload, spilled>>
        /\ work'[c] = size
    BY <1>2 DEF OcrInv, OcrTypes, W!Preprocess, W!Goes
  <2> QED BY <1>1, <1>3, <2>1, FilesDiffer DEF OcrInv, OfCall, Stored, Prepared
<1>6. ASSUME NEW d \in Calls, d # c PROVE OfCall(d)'
  BY <1>2, <1>6, FilesDiffer, Untouched DEF OcrInv, OcrTypes, W!Preprocess, W!Goes
<1> QED BY <1>4, <1>5, <1>6 DEF OcrInv

LEMMA SaveFailsKeeps ==
    ASSUME OcrInv, NEW c \in Calls, W!SaveFails(c)
    PROVE  OcrInv'
<1>1. OcrTypes'  BY DEF OcrInv, OcrTypes, W!SaveFails, W!Returns, W!Goes, Stages
<1>2. OfCall(c)'
  BY FilesDiffer DEF OcrInv, OcrTypes, OfCall, Stored, Prepared, W!SaveFails, W!NeedsImage, W!Returns,
     W!Goes
<1>3. ASSUME NEW d \in Calls, d # c PROVE OfCall(d)'
  BY <1>3, FilesDiffer, Untouched DEF OcrInv, OcrTypes, W!SaveFails, W!Returns, W!Goes
<1> QED BY <1>1, <1>2, <1>3 DEF OcrInv

LEMMA RespondKeeps ==
    ASSUME OcrInv, NEW c \in Calls, W!Respond(c)
    PROVE  OcrInv'
<1>1. OcrTypes'  BY DEF OcrInv, OcrTypes, W!Respond, W!Goes, Stages
<1>2. OfCall(c)'
  BY FilesDiffer DEF OcrInv, OcrTypes, OfCall, Stored, Prepared, W!Respond, W!Goes
<1>3. ASSUME NEW d \in Calls, d # c PROVE OfCall(d)'
  BY <1>3, FilesDiffer, Untouched DEF OcrInv, OcrTypes, W!Respond, W!Goes
<1> QED BY <1>1, <1>2, <1>3 DEF OcrInv

LEMMA OcrNext == OcrInv /\ [W!Next]_(W!vars) => OcrInv'
<1> SUFFICES ASSUME OcrInv, [W!Next]_(W!vars) PROVE OcrInv'
  OBVIOUS
<1>1. CASE UNCHANGED W!vars
  BY <1>1 DEF W!vars, OcrInv, OcrTypes, OfCall, Stored, Prepared
<1>2. ASSUME NEW c \in Calls, W!ReaderFails(c) \/ W!Unreadable(c) \/ W!Read(c) PROVE OcrInv'
  BY <1>2, LeavesKeeps DEF W!ReaderFails, W!Unreadable, W!NeedsImage, W!Read
<1> QED
  BY <1>1, <1>2, ReceiveKeeps, ReaderKeeps, PreprocessKeeps, SaveFailsKeeps, RespondKeeps DEF W!Next

(* Whatever fails in however many calls at once, a call leaves no file but *)
(* one whose writing failed, its upload and its working image are there as *)
(* long as they are used, and no working image is empty or over the limit, *)
(* for any photo and whatever the reader finds in it.                      *)
THEOREM ScansAreTidy == AllSpec => []ScansLeaveNothing
<1>1. AllInit => OcrInv  BY Alone, OcrInit
<1>2. OcrInv /\ [AllNext]_all => OcrInv'  BY Alone, OcrNext
<1>3. OcrInv => ScansLeaveNothing
  BY DEF OcrInv, OcrTypes, OfCall, Stored, Prepared, Stages, ScansLeaveNothing, W!ScansLeaveNothing
<1> QED BY <1>1, <1>2, <1>3, PTL DEF AllSpec

----------------------------------------------------------------------------
(* Review *)

OwnPhotos ==
    \A i \in DOMAIN rows : shown[rows[i]] = rows[i] /\ value[rows[i]] \in {rows[i], "typed", None}

(* The dialog, when it is open, and what is loaded for it are about a row  *)
(* that is still at its position; and what is cut and scanned is its photo.*)
Landing ==
    /\ OwnPhotos
    /\ crop.index # 0 => /\ crop.index \in DOMAIN rows /\ crop.photo = rows[crop.index]
                         /\ crop.display \in {None, crop.photo}
                         /\ \A k \in V!CropIds : scans[k] \in {None, crop.photo}
                         /\ \A k \in V!CutIds : cuts[k] \in {None, crop.photo}
    /\ \A k \in V!CropIds : loading[k] # None => /\ loading[k].index \in DOMAIN rows
                                                 /\ loading[k].photo = rows[loading[k].index]
    /\ \A k \in V!HintIds : hints[k] # None => hints[k].photo = hints[k].row

(* A row that waits for a re-scan is at its position, flagged, assigned to *)
(* the meter the re-scan is for, and waits for one only.                   *)
Fitting ==
    \A k \in V!HintIds : hints[k] # None =>
       /\ hints[k].index \in DOMAIN rows /\ hints[k].index \in flagged
       /\ rows[hints[k].index] = hints[k].row /\ meter[hints[k].row] = hints[k].meter
       /\ \A j \in V!HintIds : hints[j] # None /\ hints[j].index = hints[k].index => j = k

ReviewInv == V!TypeOK /\ (strayed = FALSE => Landing) /\ (moved = FALSE => Fitting)

LEMMA RowRemoved ==
    ASSUME NEW s \in Seq(Photos), V!IsInjective(s), NEW i \in DOMAIN s
    PROVE  /\ V!RemoveAt(s, i) \in Seq(Photos) /\ V!IsInjective(V!RemoveAt(s, i))
           /\ \A j \in DOMAIN V!RemoveAt(s, i) : \E n \in DOMAIN s : V!RemoveAt(s, i)[j] = s[n]
<1> DEFINE l == SubSeq(s, 1, i - 1)
           r == SubSeq(s, i + 1, Len(s))
           t == V!RemoveAt(s, i)
<1>1. Len(s) \in Nat /\ DOMAIN s = 1..Len(s) /\ i \in 1..Len(s) /\ \A n \in 1..Len(s) : s[n] \in Photos
  BY LenProperties, ElementOfSeq
<1>2. /\ l \in Seq(Photos) /\ Len(l) = i - 1 /\ \A n \in 1..(i - 1) : l[n] = s[n]
  BY <1>1, SubSeqProperties
<1>3. /\ r \in Seq(Photos) /\ Len(r) = Len(s) - i /\ \A n \in 1..(Len(s) - i) : r[n] = s[n + i]
  BY <1>1, SubSeqProperties
<1>4. t = l \o r  BY DEF V!RemoveAt
<1> HIDE DEF l, r, t
<1>5. t \in Seq(Photos) /\ Len(t) = Len(s) - 1
  <2>1. t \in Seq(Photos) /\ Len(t) = Len(l) + Len(r)  BY <1>2, <1>3, <1>4, ConcatProperties
  <2> QED BY <1>1, <1>2, <1>3, <2>1
<1>6. DOMAIN t = 1..(Len(s) - 1)  BY <1>5, LenProperties
<1>7. \A n \in 1..(Len(s) - 1) : t[n] = IF n < i THEN s[n] ELSE s[n + 1]
  <2> TAKE n \in 1..(Len(s) - 1)
  <2>1. t[n] = IF n <= Len(l) THEN l[n] ELSE r[n - Len(l)]
    <3>1. n \in 1..(Len(l) + Len(r))  BY <1>1, <1>2, <1>3
    <3> QED BY <1>2, <1>3, <1>4, <3>1, ConcatProperties
  <2>2. CASE n < i  BY <1>1, <1>2, <2>1, <2>2
  <2>3. CASE ~(n < i)
    <3>1. n - Len(l) \in 1..(Len(s) - i) /\ n - Len(l) + i = n + 1 /\ ~(n <= Len(l))
      BY <1>1, <1>2, <2>3
    <3> QED BY <1>3, <2>1, <2>3, <3>1
  <2> QED BY <2>2, <2>3
<1>8. \A n \in 1..(Len(s) - 1) : \E m \in 1..Len(s) : t[n] = s[m] /\ m = IF n < i THEN n ELSE n + 1
  BY <1>1, <1>7
<1>9. V!IsInjective(t)
  <2> SUFFICES ASSUME NEW a \in 1..(Len(s) - 1), NEW b \in 1..(Len(s) - 1), t[a] = t[b] PROVE a = b
    BY <1>6 DEF V!IsInjective
  <2>1. PICK m \in 1..Len(s) : t[a] = s[m] /\ m = IF a < i THEN a ELSE a + 1  BY <1>8
  <2>2. PICK n \in 1..Len(s) : t[b] = s[n] /\ n = IF b < i THEN b ELSE b + 1  BY <1>8
  <2>3. m = n  BY <1>1, <2>1, <2>2 DEF V!IsInjective
  <2> QED BY <1>1, <2>1, <2>2, <2>3
<1> QED BY <1>1, <1>5, <1>6, <1>8, <1>9 DEF t

LEMMA ReviewInit == V!Init => ReviewInv
<1> SUFFICES ASSUME V!Init PROVE ReviewInv
  OBVIOUS
<1>1. rows \in Seq(Photos) /\ V!IsInjective(rows)
  <2>1. V!Cardinality(Photos) \in Nat
    BY ReviewAssumption, FS_CardinalityType DEF ReviewAssumption, V!Cardinality, Cardinality
  <2>2. rows \in [1..V!Cardinality(Photos) -> Photos]  BY DEF V!Init, V!SetToSeqs
  <2>3. \A i, j \in 1..V!Cardinality(Photos) : i # j => rows[i] # rows[j]
    BY DEF V!Init, V!SetToSeqs
  <2> QED BY <2>1, <2>2, <2>3 DEF V!IsInjective
<1>2. V!TypeOK
  <2>1. shown \in [Photos -> Photos] /\ meter \in [Photos -> ReviewMeters \union {None}]
    BY DEF V!Init
  <2>2. value \in [Photos -> Photos \union {"typed", None}]
    BY DEF V!Init
  <2>3. crop \in V!Dialog
    BY DEF V!Init, V!Closed, V!Dialog
  <2>4. /\ loading \in [V!CropIds -> [index : Nat, photo : Photos] \union {None}]
        /\ scans \in [V!CropIds -> Photos \union {None}]
        /\ cuts \in [V!CutIds -> Photos \union {None}]
        /\ hints \in [V!HintIds -> [row : Photos, index : Nat, photo : Photos, meter : ReviewMeters]
                                   \union {None}]
    BY DEF V!Init
  <2>5. flagged \subseteq Nat /\ {crops, asked, typed} \subseteq Nat
    BY DEF V!Init
  <2>6. strayed \in BOOLEAN /\ moved \in BOOLEAN
    BY DEF V!Init
  <2> QED BY <1>1, <2>1, <2>2, <2>3, <2>4, <2>5, <2>6 DEF V!TypeOK
<1>3. \A i \in DOMAIN rows : rows[i] \in Photos  BY <1>1
<1>4. Landing
  BY <1>3 DEF V!Init, Landing, OwnPhotos, V!Closed
<1> QED BY <1>2, <1>4 DEF V!Init, ReviewInv, Fitting

(* What the proofs of the steps use of the types. *)
LEMMA ReviewTyped ==
    ASSUME V!TypeOK
    PROVE  /\ rows \in Seq(Photos) /\ DOMAIN rows = 1..Len(rows) /\ Len(rows) \in Nat
           /\ \A i \in DOMAIN rows : rows[i] \in Photos
           /\ DOMAIN shown = Photos /\ DOMAIN value = Photos /\ DOMAIN meter = Photos
           /\ DOMAIN loading = V!CropIds /\ DOMAIN scans = V!CropIds /\ DOMAIN cuts = V!CutIds
           /\ DOMAIN hints = V!HintIds
           /\ crop.index \in Nat /\ crop.photo \in Photos \union {None}
           /\ crop.display \in Photos \union {None}
<1>1. rows \in Seq(Photos)  BY DEF V!TypeOK
<1>2. DOMAIN rows = 1..Len(rows) /\ Len(rows) \in Nat /\ \A i \in DOMAIN rows : rows[i] \in Photos
  BY <1>1, LenProperties, ElementOfSeq
<1> QED BY <1>1, <1>2 DEF V!TypeOK, V!Dialog

(* The dialog is opened for a row. *)
LEMMA ShowKeeps ==
    ASSUME NEW i \in Nat, NEW photo \in Photos, V!Show(i, photo)
    PROVE  /\ crop' \in V!Dialog
           /\ crop'.index = i /\ crop'.photo = photo /\ crop'.display = None
BY DEF V!Show, V!Closed, V!Dialog

LEMMA OpenCropKeeps ==
    ASSUME ReviewInv, NEW i \in DOMAIN rows, V!OpenCrop(i)
    PROVE  ReviewInv'
<1>1. V!TypeOK  BY DEF ReviewInv
<1>2. /\ rows[i] \in Photos /\ shown[rows[i]] \in Photos /\ i \in Nat
  BY <1>1, ReviewTyped DEF V!TypeOK
<1>3. crops \in Nat /\ crops + 1 \in V!CropIds /\ crops' = crops + 1
  BY <1>1, ReviewAssumption DEF ReviewAssumption, V!TypeOK, V!OpenCrop, V!CropIds
<1>4. UNCHANGED <<rows, shown, value, meter, cuts, scans, hints, flagged, asked, typed, moved>>
  BY DEF V!OpenCrop
<1>5. CASE V!Show(i, shown[rows[i]]) /\ strayed' = (strayed \/ V!Elsewhere(shown[rows[i]])) /\ UNCHANGED loading
  <2>1. /\ crop' \in V!Dialog
        /\ crop'.index = i /\ crop'.photo = shown[rows[i]] /\ crop'.display = None
    BY <1>2, <1>5, ShowKeeps
  <2>2. /\ strayed' \in BOOLEAN
        /\ strayed' = FALSE => /\ strayed = FALSE
                               /\ \A k \in V!CropIds : scans[k] \in {None, crop'.photo}
                               /\ \A k \in V!CutIds : cuts[k] \in {None, crop'.photo}
    BY <1>1, <1>5, <2>1 DEF V!TypeOK, V!Elsewhere
  <2>3. {crops', asked', typed'} \subseteq Nat
    BY <1>1, <1>3, <1>4 DEF V!TypeOK
  <2>4. V!TypeOK'
    BY <1>1, <1>4, <1>5, <2>1, <2>2, <2>3 DEF V!TypeOK
  <2>5. strayed' = FALSE => Landing'
    BY <1>4, <1>5, <2>1, <2>2 DEF ReviewInv, Landing, OwnPhotos
  <2> QED BY <1>4, <2>4, <2>5 DEF ReviewInv, Fitting
<1>6. CASE /\ loading' = [loading EXCEPT ![crops + 1] = [index |-> i, photo |-> shown[rows[i]]]]
           /\ UNCHANGED <<crop, strayed>>
  <2>1. loading' \in [V!CropIds -> [index : Nat, photo : Photos] \union {None}]
    BY <1>1, <1>2, <1>3, <1>6 DEF V!TypeOK
  <2>2. {crops', asked', typed'} \subseteq Nat
    BY <1>1, <1>3, <1>4 DEF V!TypeOK
  <2>3. V!TypeOK'
    BY <1>1, <1>4, <1>6, <2>1, <2>2 DEF V!TypeOK
  <2>4. \A k \in V!CropIds : loading'[k] = IF k = crops + 1 THEN [index |-> i, photo |-> shown[rows[i]]]
                                            ELSE loading[k]
    BY <1>1, <1>3, <1>6 DEF V!TypeOK
  <2>5. strayed' = FALSE => Landing'
    BY <1>4, <1>6, <2>4 DEF ReviewInv, Landing, OwnPhotos
  <2> QED BY <1>4, <2>3, <2>5 DEF ReviewInv, Fitting
<1> QED BY <1>5, <1>6 DEF V!OpenCrop

LEMMA LoadedKeeps ==
    ASSUME ReviewInv, NEW k \in V!CropIds, V!Loaded(k)
    PROVE  ReviewInv'
<1>1. V!TypeOK  BY DEF ReviewInv
<1>2. loading[k].index \in Nat /\ loading[k].photo \in Photos
  BY <1>1 DEF V!TypeOK, V!Loaded
<1>3. /\ UNCHANGED <<rows, shown, value, meter, cuts, scans, hints, flagged, crops, asked, typed, moved>>
      /\ loading' = [loading EXCEPT ![k] = None] /\ loading[k] # None
  BY DEF V!Loaded
<1>4. /\ loading' \in [V!CropIds -> [index : Nat, photo : Photos] \union {None}]
      /\ \A j \in V!CropIds : loading'[j] = IF j = k THEN None ELSE loading[j]
  BY <1>1, <1>3 DEF V!TypeOK
<1>5. CASE /\ V!Show(loading[k].index, loading[k].photo)
           /\ strayed' = (strayed \/ V!Elsewhere(loading[k].photo))
  <2>1. /\ crop' \in V!Dialog
        /\ crop'.index = loading[k].index /\ crop'.photo = loading[k].photo /\ crop'.display = None
    BY <1>2, <1>5, ShowKeeps
  <2>2. /\ strayed' \in BOOLEAN
        /\ strayed' = FALSE => /\ strayed = FALSE
                               /\ \A j \in V!CropIds : scans[j] \in {None, crop'.photo}
                               /\ \A j \in V!CutIds : cuts[j] \in {None, crop'.photo}
    BY <1>1, <1>5, <2>1 DEF V!TypeOK, V!Elsewhere
  <2>3. V!TypeOK'
    BY <1>1, <1>3, <1>4, <2>1, <2>2 DEF V!TypeOK
  <2>4. strayed' = FALSE => Landing'
    BY <1>3, <1>4, <2>1, <2>2 DEF ReviewInv, Landing, OwnPhotos
  <2> QED BY <1>3, <2>3, <2>4 DEF ReviewInv, Fitting
<1>6. CASE UNCHANGED <<crop, strayed>>
  <2>1. V!TypeOK'  BY <1>1, <1>3, <1>4, <1>6 DEF V!TypeOK
  <2>2. strayed' = FALSE => Landing'
    BY <1>3, <1>4, <1>6 DEF ReviewInv, Landing, OwnPhotos
  <2> QED BY <1>3, <2>1, <2>2 DEF ReviewInv, Fitting
<1> QED BY <1>5, <1>6 DEF V!Loaded

LEMMA CloseKeeps ==
    ASSUME ReviewInv, V!Close
    PROVE  ReviewInv'
<1>1. V!TypeOK  BY DEF ReviewInv
<1>2. /\ crop' = [crop EXCEPT !.index = 0, !.photo = None, !.display = None]
      /\ UNCHANGED <<cuts, rows, shown, value, meter, loading, scans, hints, flagged, crops, asked, typed,
                     strayed, moved>>
  BY DEF V!Close
<1>3. crop' \in V!Dialog /\ crop'.index = 0
  BY <1>1, <1>2 DEF V!TypeOK, V!Dialog
<1>4. V!TypeOK'  BY <1>1, <1>2, <1>3 DEF V!TypeOK
<1>5. strayed' = FALSE => Landing'
  BY <1>2, <1>3 DEF ReviewInv, Landing, OwnPhotos
<1> QED BY <1>2, <1>4, <1>5 DEF ReviewInv, Fitting

LEMMA GoToSerialKeeps ==
    ASSUME ReviewInv, V!GoToSerial
    PROVE  ReviewInv'
<1>1. V!TypeOK  BY DEF ReviewInv
<1>2. PICK k \in V!CutIds : cuts' = [cuts EXCEPT ![k] = crop.photo]
  BY DEF V!GoToSerial
<1>3. /\ crop.photo \in Photos \union {None}
      /\ UNCHANGED <<rows, shown, value, meter, crop, loading, scans, hints, flagged, crops, asked, typed,
                     strayed, moved>>
  BY <1>1, ReviewTyped DEF V!GoToSerial
<1>4. /\ cuts' \in [V!CutIds -> Photos \union {None}]
      /\ \A j \in V!CutIds : cuts'[j] = cuts[j] \/ cuts'[j] = crop.photo
  BY <1>1, <1>2, <1>3 DEF V!TypeOK
<1>5. V!TypeOK'  BY <1>1, <1>3, <1>4 DEF V!TypeOK
<1>6. strayed' = FALSE => Landing'
  BY <1>3, <1>4 DEF ReviewInv, Landing, OwnPhotos
<1> QED BY <1>3, <1>5, <1>6 DEF ReviewInv, Fitting

(* A cut arrives: of the photo of the dialog, if that is open. *)
LEMMA CutMadeKeeps ==
    ASSUME ReviewInv, NEW k \in V!CutIds, V!CutMade(k)
    PROVE  ReviewInv'
<1>1. V!TypeOK  BY DEF ReviewInv
<1>2. /\ cuts[k] # None /\ cuts[k] \in Photos /\ cuts' = [cuts EXCEPT ![k] = None]
      /\ crop' = [crop EXCEPT !.display = cuts[k], !.stage = "serial"] \/ UNCHANGED crop
      /\ UNCHANGED <<rows, shown, value, meter, loading, scans, hints, flagged, crops, asked, typed,
                     strayed, moved>>
  BY <1>1 DEF V!TypeOK, V!CutMade
<1>3. /\ crop' \in V!Dialog /\ crop'.index = crop.index /\ crop'.photo = crop.photo
      /\ crop'.display \in {crop.display, cuts[k]}
  BY <1>1, <1>2 DEF V!TypeOK, V!Dialog
<1>4. /\ cuts' \in [V!CutIds -> Photos \union {None}]
      /\ \A j \in V!CutIds : cuts'[j] = None \/ cuts'[j] = cuts[j]
  BY <1>1, <1>2 DEF V!TypeOK
<1>5. V!TypeOK'  BY <1>1, <1>2, <1>3, <1>4 DEF V!TypeOK
<1>6. strayed' = FALSE => Landing'
  BY <1>2, <1>3, <1>4 DEF ReviewInv, Landing, OwnPhotos
<1> QED BY <1>2, <1>5, <1>6 DEF ReviewInv, Fitting

LEMMA CropSubmitKeeps ==
    ASSUME ReviewInv, V!CropSubmit
    PROVE  ReviewInv'
<1>1. V!TypeOK  BY DEF ReviewInv
<1>2. PICK k \in V!CropIds : scans' = [scans EXCEPT ![k] = crop.display]
  BY DEF V!CropSubmit
<1>3. /\ crop.index # 0 /\ crop.display # None
      /\ crop' = [crop EXCEPT !.stage = "scanning"]
      /\ UNCHANGED <<cuts, rows, shown, value, meter, loading, hints, flagged, crops, asked, typed,
                     strayed, moved>>
  BY DEF V!CropSubmit
<1>4. /\ crop' \in V!Dialog /\ crop'.index = crop.index
      /\ crop'.photo = crop.photo /\ crop'.display = crop.display /\ crop.display \in Photos
  BY <1>1, <1>3 DEF V!TypeOK, V!Dialog
<1>5. /\ scans' \in [V!CropIds -> Photos \union {None}]
      /\ \A j \in V!CropIds : scans'[j] = scans[j] \/ scans'[j] = crop.display
  BY <1>1, <1>2, <1>4 DEF V!TypeOK
<1>6. V!TypeOK'  BY <1>1, <1>3, <1>4, <1>5 DEF V!TypeOK
<1>7. strayed' = FALSE => Landing'
  BY <1>3, <1>4, <1>5 DEF ReviewInv, Landing, OwnPhotos
<1> QED BY <1>3, <1>6, <1>7 DEF ReviewInv, Fitting

LEMMA CropFailedKeeps ==
    ASSUME ReviewInv, NEW k \in V!CropIds, V!CropFailed(k)
    PROVE  ReviewInv'
<1>1. V!TypeOK  BY DEF ReviewInv
<1>2. /\ scans' = [scans EXCEPT ![k] = None]
      /\ crop' = [crop EXCEPT !.stage = "serial"] \/ UNCHANGED crop
      /\ UNCHANGED <<cuts, rows, shown, value, meter, loading, hints, flagged, crops, asked, typed,
                     strayed, moved>>
  BY DEF V!CropFailed
<1>3. /\ crop' \in V!Dialog /\ crop'.index = crop.index
      /\ crop'.photo = crop.photo /\ crop'.display = crop.display
  BY <1>1, <1>2 DEF V!TypeOK, V!Dialog
<1>4. /\ scans' \in [V!CropIds -> Photos \union {None}]
      /\ \A j \in V!CropIds : scans'[j] = IF j = k THEN None ELSE scans[j]
  BY <1>1, <1>2 DEF V!TypeOK
<1>5. V!TypeOK'  BY <1>1, <1>2, <1>3, <1>4 DEF V!TypeOK
<1>6. strayed' = FALSE => Landing'
  BY <1>2, <1>3, <1>4 DEF ReviewInv, Landing, OwnPhotos
<1> QED BY <1>2, <1>5, <1>6 DEF ReviewInv, Fitting

LEMMA CropAnsweredKeeps ==
    ASSUME ReviewInv, NEW k \in V!CropIds, NEW m \in ReviewMeters \union {None}, V!CropAnswered(k, m)
    PROVE  ReviewInv'
<1> DEFINE row == rows[crop.index]
<1>1. V!TypeOK  BY DEF ReviewInv
<1>2. /\ scans[k] # None /\ scans[k] \in Photos /\ crop.index \in DOMAIN rows /\ row \in Photos
      /\ scans' = [scans EXCEPT ![k] = None]
      /\ crop' = [crop EXCEPT !.index = 0, !.photo = None, !.display = None]
      /\ value' = [value EXCEPT ![row] = scans[k]] \/ UNCHANGED value
      /\ shown' = [shown EXCEPT ![row] = scans[k]]
      /\ meter' = IF m = None THEN meter ELSE [meter EXCEPT ![row] = m]
      /\ moved' = (moved \/ (m # None /\ V!Hinting))
      /\ UNCHANGED <<cuts, rows, loading, hints, flagged, crops, asked, typed, strayed>>
  BY <1>1, ReviewTyped DEF V!TypeOK, V!CropAnswered
<1> HIDE DEF row
<1>3. /\ crop' \in V!Dialog /\ crop'.index = 0
      /\ scans' \in [V!CropIds -> Photos \union {None}]
      /\ \A j \in V!CropIds : scans'[j] = IF j = k THEN None ELSE scans[j]
  BY <1>1, <1>2 DEF V!TypeOK, V!Dialog
<1>4. /\ shown' \in [Photos -> Photos]
      /\ \A p \in Photos : shown'[p] = IF p = row THEN scans[k] ELSE shown[p]
  BY <1>1, <1>2 DEF V!TypeOK
<1>5. /\ value' \in [Photos -> Photos \union {"typed", None}]
      /\ \A p \in Photos : value'[p] = value[p] \/ (p = row /\ value'[p] = scans[k])
  BY <1>1, <1>2 DEF V!TypeOK
<1>6. meter' \in [Photos -> ReviewMeters \union {None}]
  BY <1>1, <1>2 DEF V!TypeOK
<1>7. /\ moved' \in BOOLEAN
      /\ moved' = FALSE => moved = FALSE /\ (UNCHANGED meter \/ \A j \in V!HintIds : hints[j] = None)
  BY <1>1, <1>2 DEF V!TypeOK, V!Hinting
<1>8. V!TypeOK'  BY <1>1, <1>2, <1>3, <1>4, <1>5, <1>6, <1>7 DEF V!TypeOK
<1>9. ASSUME strayed' = FALSE PROVE Landing'
  <2>1. Landing  BY <1>2, <1>9 DEF ReviewInv
  <2>2. crop.index # 0
    BY <1>1, <1>2, ReviewTyped
  <2>3. scans[k] = row  BY <1>2, <2>1, <2>2 DEF Landing, row
  <2>4. \A i \in DOMAIN rows : rows[i] \in Photos  BY <1>1, ReviewTyped
  <2>5. OwnPhotos'
    BY <1>2, <1>4, <1>5, <2>1, <2>3, <2>4 DEF Landing, OwnPhotos
  <2> QED BY <1>2, <1>3, <2>1, <2>5 DEF Landing
<1>10. moved' = FALSE => Fitting'
  BY <1>2, <1>7 DEF ReviewInv, Fitting
<1> QED BY <1>8, <1>9, <1>10 DEF ReviewInv

LEMMA RemoveRowKeeps ==
    ASSUME ReviewInv, NEW i \in DOMAIN rows, V!RemoveRow(i)
    PROVE  ReviewInv'
<1>1. V!TypeOK  BY DEF ReviewInv
<1>2. /\ crop.index = 0 /\ rows' = V!RemoveAt(rows, i)
      /\ strayed' = (strayed \/ V!Loading)
      /\ moved' = (moved \/ V!Hinting)
      /\ UNCHANGED <<cuts, shown, value, meter, crop, loading, scans, hints, flagged, crops, asked, typed>>
  BY DEF V!RemoveRow, V!PageReachable
<1>3. /\ rows' \in Seq(Photos) /\ V!IsInjective(rows')
      /\ \A j \in DOMAIN rows' : \E n \in DOMAIN rows : rows'[j] = rows[n]
  BY <1>1, <1>2, RowRemoved DEF V!TypeOK
<1>4. /\ strayed' \in BOOLEAN
      /\ strayed' = FALSE => /\ strayed = FALSE
                             /\ \A k \in V!CropIds : loading[k] = None
  BY <1>1, <1>2 DEF V!TypeOK, V!Loading
<1>5. moved' \in BOOLEAN /\ (moved' = FALSE => \A k \in V!HintIds : hints[k] = None)
  BY <1>1, <1>2 DEF V!TypeOK, V!Hinting
<1>6. V!TypeOK'  BY <1>1, <1>2, <1>3, <1>4, <1>5 DEF V!TypeOK
<1>7. strayed' = FALSE => Landing'
  BY <1>2, <1>3, <1>4 DEF ReviewInv, Landing, OwnPhotos
<1> QED BY <1>2, <1>5, <1>6, <1>7 DEF ReviewInv, Fitting

LEMMA TypeValueKeeps ==
    ASSUME ReviewInv, NEW i \in DOMAIN rows, V!TypeValue(i)
    PROVE  ReviewInv'
<1>1. V!TypeOK /\ rows[i] \in Photos /\ \A j \in DOMAIN rows : rows[j] \in Photos
  BY ReviewTyped DEF ReviewInv
<1>2. /\ value' = [value EXCEPT ![rows[i]] = "typed"] /\ typed' = typed + 1
      /\ UNCHANGED <<cuts, rows, shown, meter, crop, loading, scans, hints, flagged, crops, asked, strayed, moved>>
  BY DEF V!TypeValue
<1>3. {crops', asked', typed'} \subseteq Nat  BY <1>1, <1>2 DEF V!TypeOK
<1>4. /\ value' \in [Photos -> Photos \union {"typed", None}]
      /\ \A p \in Photos : value'[p] = value[p] \/ value'[p] = "typed"
  BY <1>1, <1>2 DEF V!TypeOK
<1>5. V!TypeOK'  BY <1>1, <1>2, <1>3, <1>4 DEF V!TypeOK
<1>6. strayed' = FALSE => Landing'
  BY <1>1, <1>2, <1>4 DEF ReviewInv, Landing, OwnPhotos
<1> QED BY <1>2, <1>5, <1>6 DEF ReviewInv, Fitting

LEMMA SelectMeterKeeps ==
    ASSUME ReviewInv, NEW i \in DOMAIN rows, NEW m \in ReviewMeters, V!SelectMeter(i, m)
    PROVE  ReviewInv'
<1> DEFINE hint == [row |-> rows[i], index |-> i, photo |-> shown[rows[i]], meter |-> m]
           k == asked + 1
<1>1. /\ V!TypeOK /\ rows[i] \in Photos /\ shown[rows[i]] \in Photos /\ i \in Nat
      /\ \A j \in DOMAIN rows : rows[j] \in Photos
  BY ReviewTyped DEF ReviewInv, V!TypeOK
<1>2. /\ i \notin flagged /\ asked < MaxHints
      /\ meter' = [meter EXCEPT ![rows[i]] = m] /\ hints' = [hints EXCEPT ![k] = hint]
      /\ asked' = asked + 1 /\ flagged' = flagged \union {i}
      /\ UNCHANGED <<cuts, rows, shown, value, crop, loading, scans, crops, typed, strayed, moved>>
  BY DEF V!SelectMeter, V!Disabled
<1>3. k \in V!HintIds
  BY <1>1, <1>2, ReviewAssumption DEF ReviewAssumption, V!TypeOK, V!HintIds
<1>4. {crops', asked', typed'} \subseteq Nat  BY <1>1, <1>2 DEF V!TypeOK
<1> HIDE DEF k
<1>5. /\ hint \in [row : Photos, index : Nat, photo : Photos, meter : ReviewMeters]
      /\ hint.row = rows[i] /\ hint.index = i /\ hint.photo = shown[rows[i]] /\ hint.meter = m
  BY <1>1
<1> HIDE DEF hint
<1>6. /\ hints' \in [V!HintIds -> [row : Photos, index : Nat, photo : Photos, meter : ReviewMeters]
                                 \union {None}]
      /\ \A j \in V!HintIds : hints'[j] = IF j = k THEN hint ELSE hints[j]
  BY <1>1, <1>2, <1>3, <1>5 DEF V!TypeOK
<1>7. /\ meter' \in [Photos -> ReviewMeters \union {None}]
      /\ \A p \in Photos : meter'[p] = IF p = rows[i] THEN m ELSE meter[p]
  BY <1>1, <1>2 DEF V!TypeOK
<1>8. V!TypeOK'  BY <1>1, <1>2, <1>4, <1>6, <1>7 DEF V!TypeOK
<1>9. strayed' = FALSE => Landing'
  BY <1>1, <1>2, <1>5, <1>6 DEF ReviewInv, Landing, OwnPhotos
<1>10. ASSUME moved' = FALSE PROVE Fitting'
  <2>1. Fitting  BY <1>2, <1>10 DEF ReviewInv
  <2>2. \A j \in V!HintIds : hints[j] # None => hints[j].index # i /\ hints[j].row # rows[i]
    BY <1>1, <1>2, <2>1 DEF Fitting, V!TypeOK, V!IsInjective
  <2>3. \A j \in V!HintIds : hints[j] # None => hints[j].row \in Photos
    BY <1>1 DEF V!TypeOK
  <2> QED BY <1>1, <1>2, <1>5, <1>6, <1>7, <2>1, <2>2, <2>3 DEF Fitting
<1> QED BY <1>8, <1>9, <1>10 DEF ReviewInv

LEMMA HintAnsweredKeeps ==
    ASSUME ReviewInv, NEW k \in V!HintIds, NEW applied \in BOOLEAN, V!HintAnswered(k, applied)
    PROVE  ReviewInv'
<1>1. V!TypeOK /\ \A j \in DOMAIN rows : rows[j] \in Photos
  BY ReviewTyped DEF ReviewInv
<1>2. /\ hints[k] # None /\ hints[k].row \in Photos /\ hints[k].photo \in Photos
      /\ value' = IF applied THEN [value EXCEPT ![hints[k].row] = hints[k].photo] ELSE value
      /\ flagged' = flagged \ {hints[k].index} /\ hints' = [hints EXCEPT ![k] = None]
      /\ UNCHANGED <<cuts, rows, shown, meter, crop, loading, scans, crops, asked, typed, strayed, moved>>
  BY <1>1 DEF V!TypeOK, V!HintAnswered
<1>3. /\ hints' \in [V!HintIds -> [row : Photos, index : Nat, photo : Photos, meter : ReviewMeters]
                                 \union {None}]
      /\ \A j \in V!HintIds : hints'[j] = IF j = k THEN None ELSE hints[j]
  BY <1>1, <1>2 DEF V!TypeOK
<1>4. /\ value' \in [Photos -> Photos \union {"typed", None}]
      /\ \A p \in Photos : value'[p] = value[p] \/ (p = hints[k].row /\ value'[p] = hints[k].photo)
  BY <1>1, <1>2 DEF V!TypeOK
<1>5. V!TypeOK'  BY <1>1, <1>2, <1>3, <1>4 DEF V!TypeOK
<1>6. strayed' = FALSE => Landing'
  BY <1>1, <1>2, <1>3, <1>4 DEF ReviewInv, Landing, OwnPhotos
<1>7. moved' = FALSE => Fitting'
  BY <1>2, <1>3 DEF ReviewInv, Fitting
<1> QED BY <1>5, <1>6, <1>7 DEF ReviewInv

LEMMA ReviewNext == ReviewInv /\ [V!Next]_(V!vars) => ReviewInv'
<1> SUFFICES ASSUME ReviewInv, [V!Next]_(V!vars) PROVE ReviewInv'
  OBVIOUS
<1>1. CASE UNCHANGED V!vars
  BY <1>1 DEF V!vars, ReviewInv, V!TypeOK, Landing, OwnPhotos, Fitting
<1> QED
  BY <1>1, OpenCropKeeps, LoadedKeeps, CloseKeeps, GoToSerialKeeps, CutMadeKeeps, CropSubmitKeeps, CropFailedKeeps,
     CropAnsweredKeeps, RemoveRowKeeps, TypeValueKeeps, SelectMeterKeeps, HintAnsweredKeeps DEF V!Next

(* A cut and the answer to a crop go to the row they are of although rows  *)
(* are known by position and both are awaited, for any number of rows,     *)
(* cuts, crops and re-scans, unless the dialog was opened for another row  *)
(* meanwhile, or rows moved under a photo being loaded.                    *)
THEOREM CropsLand == AllSpec => []CropAnswersLand
<1>1. AllInit => ReviewInv  BY Alone, ReviewInit
<1>2. ReviewInv /\ [AllNext]_all => ReviewInv'  BY Alone, ReviewNext
<1>3. ReviewInv => CropAnswersLand
  BY DEF ReviewInv, Landing, OwnPhotos, CropAnswersLand, V!CropAnswersLand, V!TypeOK
<1> QED BY <1>1, <1>2, <1>3, PTL DEF AllSpec

(* A value corrected for a meter is for the meter the row is assigned to,  *)
(* for any number of re-scans on their way at once.                        *)
THEOREM HintsFit == AllSpec => HintsFitTheMeter
<1>1. AllInit => ReviewInv  BY Alone, ReviewInit
<1>2. ReviewInv /\ [AllNext]_all => ReviewInv'  BY Alone, ReviewNext
<1> DEFINE Corrected ==
      \A k \in V!HintIds :
         V!HintAnswered(k, TRUE) /\ ~moved => meter[hints[k].row] = hints[k].meter
<1>3. ReviewInv => Corrected
  BY DEF ReviewInv, Fitting, V!HintAnswered, V!TypeOK
<1>4. ReviewInv /\ [AllNext]_all => [Corrected]_(V!vars)
  BY <1>3
<1> HIDE DEF Corrected
<1>5. AllSpec => [][Corrected]_(V!vars)
  BY <1>1, <1>2, <1>4, PTL DEF AllSpec
<1> QED BY <1>5 DEF HintsFitTheMeter, V!HintsFitTheMeter, Corrected

----------------------------------------------------------------------------
(* Recognition *)

(* A value from a pass with a hint is in the format of the hint. *)
Formatted == Count[reading.digits] > Decimals[hinted] => G!Fits(reading, hinted)

Ascribed ==
    /\ source \in {"llm", "hint"} => method = "llm" /\ req.engine # "ocr"
    /\ source = "ocr" => method = "ocr" /\ req.engine # "llm"
    /\ source = "client" => method = None
    /\ source = "hint" => Formatted

(* What is known at each pass: where the value came from so far, and which *)
(* engine may have been asked.  A bulk scan knows no type before a meter   *)
(* matched, so no value of it came from a hint until its last pass.        *)
RecognitionInv ==
    /\ req \in Asked
    /\ pass \in {"start", "first", "retry"} => method = None
    /\ pass \in {"start", "first"} => source = None
    /\ pass \in {"first", "retry", "zoom"} => req.engine # "ocr"
    /\ pass = "retry" => source = "llm" /\ reading # None /\ req.type # None
    /\ pass = "ocr" => req.engine # "llm"
    /\ pass = "zoom" => req.kind = "bulk"
    /\ pass \in {"recognised", "zoom", "hint", "done"} => Ascribed
    /\ req.kind = "bulk" /\ pass # "done" => source \in {"llm", "ocr", None}

LEMMA Hinted ==
    ASSUME NEW a \in Answers, NEW type, NEW s, NEW v,
           v = G!Distinct(G!Clean(a, type), s), v # None
    PROVE  Count[v.digits] > Decimals[type] => G!Fits(v, type)
<1>1. v = G!Clean(a, type) /\ a # None
  BY DEF G!Distinct, G!Clean
<1>2. a \in [digits : DOMAIN Count, frac : Nat]
  BY <1>1, RecognitionAssumption DEF RecognitionAssumption
<1>3. CASE type # None /\ Count[a.digits] > Decimals[type]
  <2>1. v = [a EXCEPT !.frac = Decimals[type]]  BY <1>1, <1>3 DEF G!Clean
  <2>2. v.frac = Decimals[type]  BY <1>2, <2>1
  <2> QED BY <2>2 DEF G!Fits
<1>4. CASE ~(type # None /\ Count[a.digits] > Decimals[type])
  <2>1. v = a  BY <1>1, <1>4 DEF G!Clean
  <2> QED BY <1>4, <2>1 DEF G!Fits
<1> QED BY <1>3, <1>4

LEMMA RecognitionInit == G!Init => RecognitionInv
BY RecognitionAssumption DEF RecognitionAssumption, G!Init, RecognitionInv

LEMMA FirstPassKeeps ==
    ASSUME RecognitionInv, NEW a \in Answers, NEW s \in SerialAnswers,
           G!FirstPass(a, s) \/ G!Retry(a, s)
    PROVE  RecognitionInv'
<1>1. req \in Asked /\ req' = req /\ method = None /\ req.engine # "ocr"
  BY DEF RecognitionInv, G!FirstPass, G!Retry
<1>2. req.engine \in {"auto", "ocr", "llm"} /\ (req.kind = "bulk" => req.type = None)
  BY <1>1, RecognitionAssumption DEF RecognitionAssumption, G!Request
<1>3. CASE G!FirstPass(a, s)
  <2> DEFINE v == G!Distinct(G!Clean(a, None), s)
  <2>1. /\ source' = IF v # None THEN "llm" ELSE None
        /\ IF G!HintRetryNeeded(v)
           THEN pass' = "retry" /\ reading' = v /\ serial' = s /\ UNCHANGED method
           ELSE G!AfterLlm(v, s)
    BY <1>3 DEF G!FirstPass
  <2> HIDE DEF v
  <2>2. G!HintRetryNeeded(v) => v # None /\ req.type # None
    BY DEF G!HintRetryNeeded, G!Fits
  <2> QED
    BY <1>1, <1>2, <2>1, <2>2, RecognitionAssumption
    DEF RecognitionAssumption, RecognitionInv, Ascribed, G!AfterLlm
<1>4. CASE G!Retry(a, s)
  <2> DEFINE v == G!Distinct(G!Clean(a, req.type), s)
  <2>1. /\ G!AfterLlm(IF v # None THEN v ELSE reading, IF s # None THEN s ELSE serial)
        /\ source' = IF v # None THEN "hint" ELSE source
        /\ hinted' = req.type
    BY <1>4 DEF G!Retry
  <2>2. v # None => (Count[v.digits] > Decimals[req.type] => G!Fits(v, req.type))
    BY Hinted
  <2> HIDE DEF v
  <2>3. source = "llm" /\ reading # None /\ req.type # None /\ req.kind # "bulk"
    BY <1>2, <1>4 DEF RecognitionInv, G!Retry
  <2>4. /\ pass' = "recognised" /\ method' = "llm"
        /\ reading' = IF v # None THEN v ELSE reading
    BY <1>1, <2>1, <2>3 DEF G!AfterLlm
  <2>5. v # None => Formatted'
    BY <2>1, <2>2, <2>4 DEF Formatted
  <2> QED
    BY <1>1, <2>1, <2>3, <2>4, <2>5, RecognitionAssumption
    DEF RecognitionAssumption, RecognitionInv, Ascribed
<1> QED BY <1>3, <1>4

LEMMA BulkHintKeeps ==
    ASSUME RecognitionInv, NEW a \in Answers, NEW s \in SerialAnswers, G!BulkHint(a, s)
    PROVE  RecognitionInv'
<1> DEFINE type == G!MeterById(match.meter).type
           v == G!Distinct(G!Clean(a, type), s)
<1>1. /\ IF v # None
         THEN reading' = v /\ method' = "llm" /\ source' = "hint"
         ELSE UNCHANGED <<reading, method, source>>
      /\ hinted' = type /\ pass' = "done" /\ req' = req
    BY DEF G!BulkHint
<1>2. v # None => (Count[v.digits] > Decimals[type] => G!Fits(v, type))
  BY Hinted
<1>3. req \in Asked /\ req.engine # "ocr" /\ Ascribed /\ source \in {"llm", "ocr", None}
  BY DEF RecognitionInv, G!BulkHint, G!BulkHintNeeded
<1> HIDE DEF v, type
<1>4. v # None => Formatted'
  BY <1>1, <1>2 DEF Formatted
<1> QED
  BY <1>1, <1>3, <1>4, RecognitionAssumption DEF RecognitionAssumption, RecognitionInv, Ascribed

LEMMA HintRescanKeeps ==
    ASSUME RecognitionInv, NEW a \in Answers, NEW s \in SerialAnswers, G!HintRescanAsk(a, s)
    PROVE  RecognitionInv'
<1>1. req \in Asked /\ req' = req /\ pass' = "done"
  BY DEF RecognitionInv, G!HintRescanAsk
<1> DEFINE v == G!Distinct(G!Clean(a, req.type), s)
<1>2. /\ reading' = IF v # None THEN v ELSE req.current
      /\ method' = IF v # None THEN "llm" ELSE None
      /\ source' = IF v # None THEN "hint" ELSE "client"
      /\ hinted' = req.type
  BY DEF G!HintRescanAsk
<1>3. v # None => (Count[v.digits] > Decimals[req.type] => G!Fits(v, req.type))
  BY Hinted
<1>4. req.engine # "ocr"  BY DEF G!HintRescanAsk, G!MustAsk
<1> HIDE DEF v
<1>5. v # None => Formatted'
  BY <1>2, <1>3 DEF Formatted
<1> QED
  BY <1>1, <1>2, <1>4, <1>5, RecognitionAssumption
  DEF RecognitionAssumption, RecognitionInv, Ascribed

LEMMA RecognitionNext == RecognitionInv /\ [G!Next]_(G!vars) => RecognitionInv'
<1> SUFFICES ASSUME RecognitionInv, [G!Next]_(G!vars) PROVE RecognitionInv'
  OBVIOUS
<1> USE RecognitionAssumption DEF RecognitionAssumption
<1>1. CASE G!Start
  <2>1. req \in Asked /\ req.engine \in {"auto", "ocr", "llm"} /\ req.kind \in {"scan", "rescan", "bulk", "hint"}
    BY DEF RecognitionInv, G!Request
  <2>2. method = None /\ source = None /\ UNCHANGED <<req, reading, method, source, hinted>>
    BY <1>1 DEF RecognitionInv, G!Start
  <2>3. \/ pass' \in {"unavailable", "recognised"}
        \/ pass' = "ocr" /\ req.engine # "llm"
        \/ pass' = "first" /\ req.engine # "ocr"
    BY <1>1, <2>1 DEF G!Start
  <2> QED BY <2>1, <2>2, <2>3 DEF RecognitionInv, Ascribed
<1>2. CASE G!OcrFails
  BY <1>2 DEF RecognitionInv, G!OcrFails
<1>3. CASE G!LlmError
  BY <1>3 DEF RecognitionInv, G!LlmError, G!LlmFails
<1>4. CASE G!MatchSerial
  BY <1>4 DEF RecognitionInv, Ascribed, Formatted, G!MatchSerial
<1>5. CASE G!BulkDone
  BY <1>5 DEF RecognitionInv, Ascribed, Formatted, G!BulkDone
<1>6. ASSUME NEW a \in Answers, NEW s \in SerialAnswers, G!OcrScan(a, s) PROVE RecognitionInv'
  BY <1>6 DEF RecognitionInv, Ascribed, G!OcrScan
<1>7. ASSUME NEW s \in SerialAnswers, G!SerialCrop(s) PROVE RecognitionInv'
  BY <1>7 DEF RecognitionInv, Ascribed, Formatted, G!SerialCrop
<1>8. ASSUME NEW s \in SerialAnswers, G!ZoomPass(s) PROVE RecognitionInv'
  <2>1. UNCHANGED <<req, reading, source, hinted>> /\ pass = "zoom" /\ pass' = "hint"
    BY <1>8 DEF G!ZoomPass
  <2>2. method' \in {method, IF method # None THEN method ELSE "llm"}
    BY <1>8 DEF G!ZoomPass
  <2>3. /\ req \in Asked /\ req.engine # "ocr" /\ Ascribed
        /\ req.kind = "bulk" /\ source \in {"llm", "ocr", None}
    BY <2>1 DEF RecognitionInv
  <2>4. Formatted => Formatted'
    BY <2>1 DEF Formatted, G!Fits
  <2>5. Ascribed'
    BY <2>1, <2>2, <2>3, <2>4 DEF Ascribed
  <2> QED BY <2>1, <2>3, <2>5 DEF RecognitionInv
<1>9. CASE UNCHANGED G!vars
  BY <1>9 DEF RecognitionInv, Ascribed, Formatted, G!vars
<1>10. ASSUME NEW a \in Answers, NEW s \in SerialAnswers,
              \/ G!FirstPass(a, s) \/ G!Retry(a, s) \/ G!BulkHint(a, s)
              \/ G!HintRescanAsk(a, s) \/ G!OcrScan(a, s)
       PROVE  RecognitionInv'
  BY <1>6, <1>10, FirstPassKeeps, BulkHintKeeps, HintRescanKeeps
<1>11. CASE G!HintRescanKeep
  <2>1. /\ req \in Asked /\ method = None /\ UNCHANGED <<req, method>> /\ pass' = "done"
        /\ source' \in {"client", None}
    BY <1>11 DEF RecognitionInv, G!HintRescanKeep
  <2> QED BY <2>1 DEF RecognitionInv, Ascribed
<1>12. CASE G!Next
  <2> HIDE RecognitionAssumption DEF RecognitionAssumption
  <2> QED BY <1>1, <1>2, <1>3, <1>4, <1>5, <1>7, <1>8, <1>10, <1>11, <1>12 DEF G!Next
<1> QED BY <1>9, <1>12

(* However many passes it took, the answer names the engine its value      *)
(* comes from, and a value from a hint is in the format of the hint, for   *)
(* any meters, serials and answers of the engines.                         *)
THEOREM MethodsAreHonest == AllSpec => []MethodHonest
<1>1. AllInit => RecognitionInv  BY Alone, RecognitionInit
<1>2. RecognitionInv /\ [AllNext]_all => RecognitionInv'  BY Alone, RecognitionNext
<1>3. RecognitionInv => MethodHonest
  BY DEF RecognitionInv, Ascribed, Formatted, MethodHonest, G!MethodHonest
<1> QED BY <1>1, <1>2, <1>3, PTL DEF AllSpec

----------------------------------------------------------------------------
(* Recognition: what serials resemble *)

(* The two folds of _levenshtein, over the symbols of either string.  They *)
(* are one recursion, so that what it computes is shown once: depth tells  *)
(* the row (1) from the table (0).                                         *)
RowStep(cur, prev, ca, b, j) ==
    Append(cur, G!Min({prev[j + 1] + 1, cur[j] + 1, prev[j] + G!Cost(ca, b[j])}))

(* What either does next: a number to the row, a row to the table.         *)
Advanced(depth, prev, a, b, cur, j) ==
    IF depth = 1 THEN RowStep(cur, prev, a, b, j) ELSE G!NextRow(cur, j, a[j], b)
FoldOver(h, n, base, depth, prev, a, b) ==
    h = [s \in SUBSET (1..n) |->
            IF s = {} THEN base
            ELSE Advanced(depth, prev, a, b, h[s \ {G!Max(s)}], [k \in 1..n |-> k][G!Max(s)])]

TheFold(n, base, depth, prev, a, b) == CHOOSE h : FoldOver(h, n, base, depth, prev, a, b)

FirstRow(b) == [j \in 1..(Len(b) + 1) |-> j - 1]

LEMMA RowIsFold ==
    ASSUME NEW T, NEW b \in Seq(T), NEW prev, NEW i, NEW ca
    PROVE  G!NextRow(prev, i, ca, b)
             = TheFold(Len(b), <<i>>, 1, prev, ca, b)[1..Len(b)]
<1>1. DOMAIN [k \in DOMAIN b |-> k] = 1..Len(b) /\ DOMAIN b = 1..Len(b)
  OBVIOUS
<1> QED
  BY <1>1 DEF G!NextRow, G!FoldLeftDomain, G!FoldLeft, G!MapThenFoldSet, RowStep, TheFold, FoldOver, Advanced

LEMMA TableIsFold ==
    ASSUME NEW T, NEW a \in Seq(T), NEW b
    PROVE  G!Distance(a, b)
             = G!Last(TheFold(Len(a), FirstRow(b), 0, <<>>, a, b)[1..Len(a)])
<1>1. DOMAIN [k \in DOMAIN a |-> k] = 1..Len(a) /\ DOMAIN a = 1..Len(a)
  OBVIOUS
<1> QED
  BY <1>1 DEF G!Distance, G!FoldLeftDomain, G!FoldLeft, G!MapThenFoldSet, TheFold, FoldOver, Advanced, FirstRow

LEMMA GreatestIndex ==
    ASSUME NEW n \in Nat, NEW s \in SUBSET (1..n)
    PROVE  s # {} => G!Max(s) \in s /\ \A x \in s : x <= G!Max(s)
<1> SUFFICES ASSUME s # {} PROVE G!Max(s) \in s /\ \A x \in s : x <= G!Max(s)
  OBVIOUS
<1>1. \E x \in s : \A y \in s : x >= y
  <2>1. IsFiniteSet(s)
    <3>1. IsFiniteSet(1..n)  BY FS_Interval
    <3> QED BY <3>1, FS_Subset
  <2> DEFINE f == [x \in s |-> x]
  <2>2. f \in [s -> Int]  OBVIOUS
  <2>3. \A x \in s : f[x] = x  OBVIOUS
  <2> HIDE DEF f
  <2>4. PICK x \in s : \A y \in s : f[y] <= f[x]
    BY <2>1, <2>2, SomethingIsLargest
  <2>5. \A y \in s : x >= y
    <3> SUFFICES ASSUME NEW y \in s PROVE x >= y
      OBVIOUS
    <3>1. f[y] <= f[x] /\ f[y] = y /\ f[x] = x /\ x \in Int /\ y \in Int  BY <2>3, <2>4
    <3> QED BY <3>1
  <2> QED BY <2>5
<1> QED BY <1>1 DEF G!Max

LEMMA GreatestOfFirst == \A k \in Nat \ {0} : G!Max(1..k) = k /\ (1..k) \ {k} = 1..(k - 1) /\ 1..k # {}
<1> SUFFICES ASSUME NEW k \in Nat \ {0} PROVE G!Max(1..k) = k /\ (1..k) \ {k} = 1..(k - 1) /\ 1..k # {}
  OBVIOUS
<1>1. k \in 1..k /\ 1..k \in SUBSET (1..k) /\ 1..k # {}  OBVIOUS
<1>2. G!Max(1..k) \in 1..k /\ \A x \in 1..k : x <= G!Max(1..k)  BY <1>1, GreatestIndex
<1>3. G!Max(1..k) = k  BY <1>1, <1>2
<1> QED BY <1>1, <1>3

LEMMA FoldOverExists ==
    ASSUME NEW n \in Nat, NEW base, NEW depth, NEW prev, NEW a, NEW b
    PROVE  \E h : FoldOver(h, n, base, depth, prev, a, b)
<1> DEFINE Op(f, s, k) == IF s = {} THEN base
                          ELSE Advanced(depth, prev, a, b, f[s \ {G!Max(s)}], [l \in 1..n |-> l][G!Max(s)])
           Folds(f, k) == f = [s \in SUBSET (1..k) |-> Op(f, s, k)]
           H == {k \in 0..n : \E f : Folds(f, k)}
<1>1. 0 \in H
  <2> DEFINE f == [s \in SUBSET (1..0) |-> base]
  <2>1. Folds(f, 0)  OBVIOUS
  <2> QED BY <2>1
<1>2. ASSUME NEW k \in 1..n, k - 1 \in H PROVE k \in H
  <2>1. PICK f : Folds(f, k - 1)  BY <1>2
  <2> DEFINE g == [s \in SUBSET (1..k) |-> IF k \in s THEN Op(f, s, k) ELSE f[s]]
  <2>2. ASSUME NEW s \in SUBSET (1..k) PROVE g[s] = Op(g, s, k)
    <3>1. g[s] = IF k \in s THEN Op(f, s, k) ELSE f[s]  OBVIOUS
    <3>2. s # {} => G!Max(s) \in s /\ \A x \in s : x <= G!Max(s)  BY GreatestIndex
    <3>3. \A t \in SUBSET (1..(k - 1)) : g[t] = f[t] /\ f[t] = Op(f, t, k)
      <4>1. \A t \in SUBSET (1..(k - 1)) : t \in SUBSET (1..k) /\ k \notin t  OBVIOUS
      <4> QED BY <2>1, <4>1
    <3>4. CASE k \in s
      <4>1. G!Max(s) = k
        <5>1. G!Max(s) \in 1..k /\ k <= G!Max(s)  BY <3>2, <3>4
        <5> QED BY <5>1
      <4>5. s \ {k} \in SUBSET (1..(k - 1))
        <5>1. ASSUME NEW x \in s \ {k} PROVE x \in 1..(k - 1)
          <6>1. x \in 1..k /\ x # k  OBVIOUS
          <6> QED BY <6>1
        <5> QED BY <5>1
      <4>2. g[s \ {k}] = f[s \ {k}]  BY <3>3, <4>5
      <4> HIDE DEF g
      <4> QED BY <3>1, <3>4, <4>1, <4>2
    <3>5. CASE k \notin s
      <4>1. s \in SUBSET (1..(k - 1)) /\ s \ {G!Max(s)} \in SUBSET (1..(k - 1))
        <5>1. ASSUME NEW x \in s PROVE x \in 1..(k - 1)
          <6>1. x \in 1..k /\ x # k  BY <3>5
          <6> QED BY <6>1
        <5> QED BY <5>1
      <4>2. g[s] = Op(f, s, k)  BY <3>3, <4>1
      <4>3. g[s \ {G!Max(s)}] = f[s \ {G!Max(s)}]  BY <3>3, <4>1
      <4> HIDE DEF g
      <4> QED BY <4>2, <4>3
    <3> QED BY <3>4, <3>5
  <2>4. g = [s \in SUBSET (1..k) |-> g[s]]
    <3> HIDE DEF Op
    <3> QED OBVIOUS
  <2>3. Folds(g, k)
    <3> HIDE DEF g, Op
    <3>1. [s \in SUBSET (1..k) |-> g[s]] = [s \in SUBSET (1..k) |-> Op(g, s, k)]  BY <2>2
    <3> QED BY <2>4, <3>1
  <2> HIDE DEF Folds, g
  <2> QED BY <2>3
<1> HIDE DEF H
<1>3. 0..n \subseteq H  BY <1>1, <1>2, Induction
<1>4. n \in H  BY <1>3
<1>5. PICK f : Folds(f, n)  BY <1>4 DEF H
<1>6. FoldOver(f, n, base, depth, prev, a, b)  BY <1>5 DEF FoldOver
<1> QED BY <1>6

LEMMA FoldOverIs ==
    ASSUME NEW n \in Nat, NEW base, NEW depth, NEW prev, NEW a, NEW b,
           NEW h, h = TheFold(n, base, depth, prev, a, b)
    PROVE  /\ h[1..0] = base
           /\ \A k \in 1..n : h[1..k] = Advanced(depth, prev, a, b, h[1..(k - 1)], k)
<1>1. FoldOver(h, n, base, depth, prev, a, b)  BY FoldOverExists DEF TheFold
<1>2. ASSUME NEW s \in SUBSET (1..n)
      PROVE  h[s] = IF s = {} THEN base
                    ELSE Advanced(depth, prev, a, b, h[s \ {G!Max(s)}], [k \in 1..n |-> k][G!Max(s)])
  BY <1>1 DEF FoldOver
<1>3. h[1..0] = base
  <2>1. 1..0 = {} /\ 1..0 \in SUBSET (1..n)  OBVIOUS
  <2> QED BY <1>2, <2>1
<1>4. ASSUME NEW k \in 1..n PROVE h[1..k] = Advanced(depth, prev, a, b, h[1..(k - 1)], k)
  <2>1. 1..k \in SUBSET (1..n) /\ k \in Nat \ {0}  OBVIOUS
  <2>2. G!Max(1..k) = k /\ (1..k) \ {k} = 1..(k - 1) /\ 1..k # {}  BY <2>1, GreatestOfFirst
  <2>3. [l \in 1..n |-> l][k] = k  OBVIOUS
  <2> QED BY <1>2, <2>1, <2>2, <2>3
<1> QED BY <1>3, <1>4

LEMMA LeastOfThree ==
    ASSUME NEW x \in Nat, NEW y \in Nat, NEW z \in Nat
    PROVE  G!Min({x, y, z}) \in Nat /\ LeastOf(G!Min({x, y, z}), x, y, z)
<1>1. \E m \in {x, y, z} : \A l \in {x, y, z} : m <= l
  <2>1. (x <= y /\ x <= z) \/ (y <= x /\ y <= z) \/ (z <= x /\ z <= y)
    OBVIOUS
  <2> QED BY <2>1
<1>2. G!Min({x, y, z}) \in {x, y, z} /\ \A l \in {x, y, z} : G!Min({x, y, z}) <= l
  BY <1>1 DEF G!Min
<1> QED BY <1>2 DEF LeastOf

(* The row below prev, up to its k-th number. *)
RowUpto(row, k, prev, i, ca, b) ==
    /\ row \in Seq(Nat) /\ Len(row) = k + 1 /\ row[1] = i
    /\ \A j \in 1..k : LeastOf(row[j + 1], prev[j + 1] + 1, row[j] + 1, prev[j] + G!Cost(ca, b[j]))

LEMMA RowCorrect ==
    ASSUME NEW T, NEW b \in Seq(T), NEW prev \in Seq(Nat), Len(prev) = Len(b) + 1, NEW i \in Nat, NEW ca
    PROVE  RowUpto(G!NextRow(prev, i, ca, b), Len(b), prev, i, ca, b)
<1> DEFINE n == Len(b)
<1>1. n \in Nat /\ \A j \in 1..(n + 1) : prev[j] \in Nat
  OBVIOUS
<1>2. PICK h : h = TheFold(n, <<i>>, 1, prev, ca, b)
  OBVIOUS
<1>3. G!NextRow(prev, i, ca, b) = h[1..n]
  BY <1>2, RowIsFold
<1>4. /\ h[1..0] = <<i>>
      /\ \A k \in 1..n : h[1..k] = RowStep(h[1..(k - 1)], prev, ca, b, k)
  <2>1. /\ h[1..0] = <<i>>
        /\ \A k \in 1..n : h[1..k] = Advanced(1, prev, ca, b, h[1..(k - 1)], k)
    <3> HIDE DEF n
    <3> QED BY <1>1, <1>2, FoldOverIs
  <2> QED BY <2>1 DEF Advanced
<1> HIDE DEF n
<1> DEFINE H == {k \in 0..n : RowUpto(h[1..k], k, prev, i, ca, b)}
<1>5. 0 \in H
  <2>1. <<i>> \in Seq(Nat) /\ Len(<<i>>) = 0 + 1 /\ <<i>>[1] = i  OBVIOUS
  <2>2. RowUpto(<<i>>, 0, prev, i, ca, b)  BY <2>1 DEF RowUpto
  <2>3. h[1..0] = <<i>>  BY <1>4
  <2>4. RowUpto(h[1..0], 0, prev, i, ca, b)  BY <2>2, <2>3
  <2>5. 0 \in 0..n  BY <1>1
  <2> QED BY <2>4, <2>5
<1>6. ASSUME NEW k \in 1..n, k - 1 \in H PROVE k \in H
  <2> DEFINE cur == h[1..(k - 1)]
             least == G!Min({prev[k + 1] + 1, cur[k] + 1, prev[k] + G!Cost(ca, b[k])})
             row == Append(cur, least)
  <2>1. RowUpto(cur, k - 1, prev, i, ca, b)  BY <1>6
  <2>2. h[1..k] = row  BY <1>4 DEF RowStep
  <2> HIDE DEF cur
  <2>3. /\ cur \in Seq(Nat) /\ Len(cur) = k /\ cur[1] = i /\ k \in Nat /\ 1 \in 1..k /\ k \in 1..k
        /\ \A j \in 1..(k - 1) : LeastOf(cur[j + 1], prev[j + 1] + 1, cur[j] + 1, prev[j] + G!Cost(ca, b[j]))
    BY <1>1, <2>1 DEF RowUpto
  <2>4. \A j \in 1..k : cur[j] \in Nat
    <3>1. cur \in Seq(Nat) /\ Len(cur) = k  BY <2>3
    <3> QED BY <3>1
  <2>5. prev[k + 1] \in Nat /\ prev[k] \in Nat  BY <1>1
  <2>6. cur[k] \in Nat  BY <2>3, <2>4
  <2>7. G!Cost(ca, b[k]) \in Nat  BY DEF G!Cost
  <2>8. least \in Nat /\ LeastOf(least, prev[k + 1] + 1, cur[k] + 1, prev[k] + G!Cost(ca, b[k]))
    <3>1. \A x, y \in Nat : x + y \in Nat /\ 1 \in Nat
      OBVIOUS
    <3>2. prev[k + 1] + 1 \in Nat /\ cur[k] + 1 \in Nat /\ prev[k] + G!Cost(ca, b[k]) \in Nat
      BY ONLY <2>5, <2>6, <2>7, <3>1, Zenon
    <3> QED BY <3>2, LeastOfThree
  <2> HIDE DEF least
  <2>9. row \in Seq(Nat) /\ Len(row) = k + 1 /\ (\A j \in 1..k : row[j] = cur[j]) /\ row[k + 1] = least
    BY <2>3, <2>8
  <2> HIDE DEF row
  <2>10. ASSUME NEW j \in 1..k
         PROVE  LeastOf(row[j + 1], prev[j + 1] + 1, row[j] + 1, prev[j] + G!Cost(ca, b[j]))
    <3>1. CASE j = k  BY <2>8, <2>9, <3>1
    <3>2. CASE j # k
      <4>1. j \in 1..(k - 1) /\ j + 1 \in 1..k  BY <2>3, <3>2
      <4> QED BY <2>3, <2>9, <4>1
    <3> QED BY <3>1, <3>2
  <2>11. RowUpto(row, k, prev, i, ca, b)
    BY <2>3, <2>9, <2>10 DEF RowUpto
  <2>12. k \in 0..n  BY <1>1
  <2> QED BY <2>2, <2>11, <2>12
<1> HIDE DEF H
<1>7. 0..n \subseteq H  BY <1>1, <1>5, <1>6, Induction
<1>8. n \in H  BY <1>1, <1>7
<1> QED BY <1>3, <1>8 DEF H, n

(* The table that the rows make. *)
LEMMA DistanceInTable ==
    ASSUME NEW T, NEW a \in Seq(T), NEW b \in Seq(T)
    PROVE  \E D : IsTable(D, a, b) /\ G!Distance(a, b) = D[Len(a)][Len(b)]
<1> DEFINE m == Len(a)
           n == Len(b)
           base == FirstRow(b)
<1>1. m \in Nat /\ n \in Nat
  OBVIOUS
<1>2. PICK h : h = TheFold(m, base, 0, <<>>, a, b)
  OBVIOUS
<1>3. G!Distance(a, b) = G!Last(h[1..m])
  BY <1>2, TableIsFold
<1>4. /\ h[1..0] = base
      /\ \A i \in 1..m : h[1..i] = G!NextRow(h[1..(i - 1)], i, a[i], b)
  <2>1. /\ h[1..0] = base
        /\ \A i \in 1..m : h[1..i] = Advanced(0, <<>>, a, b, h[1..(i - 1)], i)
    <3> HIDE DEF m, base
    <3> QED BY <1>1, <1>2, FoldOverIs
  <2> QED BY <2>1 DEF Advanced
<1>5. base \in Seq(Nat) /\ Len(base) = n + 1 /\ \A j \in 0..n : base[j + 1] = j
  BY <1>1 DEF FirstRow
<1> HIDE DEF base
<1> DEFINE Row(i) == h[1..i]
           H == {i \in 0..m : Row(i) \in Seq(Nat) /\ Len(Row(i)) = n + 1}
<1>6. 0 \in H  BY <1>1, <1>4, <1>5
<1>7. ASSUME NEW i \in 1..m, Row(i - 1) \in Seq(Nat), Len(Row(i - 1)) = n + 1
      PROVE  RowUpto(Row(i), n, Row(i - 1), i, a[i], b)
  <2>1. i \in Nat  BY <1>1
  <2>2. RowUpto(G!NextRow(Row(i - 1), i, a[i], b), n, Row(i - 1), i, a[i], b)
    BY <1>7, <2>1, RowCorrect
  <2> QED BY <1>4, <2>2
<1>8. ASSUME NEW i \in 1..m, i - 1 \in H PROVE i \in H
  <2>1. i \in 0..m  BY <1>1
  <2>2. RowUpto(Row(i), n, Row(i - 1), i, a[i], b)  BY <1>7, <1>8
  <2> QED BY <2>1, <2>2 DEF RowUpto
<1> HIDE DEF H
<1>9. 0..m \subseteq H  BY <1>1, <1>6, <1>8, Induction
<1>10. \A i \in 0..m : Row(i) \in Seq(Nat) /\ Len(Row(i)) = n + 1
  BY <1>9 DEF H
<1>11. \A i \in 1..m : RowUpto(Row(i), n, Row(i - 1), i, a[i], b)
  <2> SUFFICES ASSUME NEW i \in 1..m PROVE RowUpto(Row(i), n, Row(i - 1), i, a[i], b)
    OBVIOUS
  <2>1. i - 1 \in 0..m  BY <1>1
  <2> QED BY <1>7, <1>10, <2>1
<1>12. \A j \in 0..n : Row(0)[j + 1] = j
  BY <1>4, <1>5
<1> HIDE DEF Row
<1> DEFINE D == [i \in 0..m |-> [j \in 0..n |-> Row(i)[j + 1]]]
<1>13. \A i \in 0..m, j \in 0..n : D[i][j] = Row(i)[j + 1]
  OBVIOUS
<1> HIDE DEF D
<1>14. \A i \in 0..m, j \in 0..n : D[i][j] \in Nat
  <2> SUFFICES ASSUME NEW i \in 0..m, NEW j \in 0..n PROVE D[i][j] \in Nat
    OBVIOUS
  <2>1. Row(i) \in Seq(Nat) /\ j + 1 \in 1..Len(Row(i))  BY <1>1, <1>10
  <2> QED BY <1>13, <2>1
<1>15. \A i \in 0..m : D[i][0] = i
  <2> SUFFICES ASSUME NEW i \in 0..m PROVE D[i][0] = i
    OBVIOUS
  <2>1. 0 \in 0..n /\ D[i][0] = Row(i)[0 + 1]  BY <1>1, <1>13
  <2>2. CASE i = 0  BY <1>12, <2>1, <2>2
  <2>3. CASE i # 0
    <3>1. i \in 1..m  BY <1>1, <2>3
    <3> QED BY <1>11, <2>1, <3>1 DEF RowUpto
  <2> QED BY <2>2, <2>3
<1>16. \A j \in 0..n : D[0][j] = j
  <2>1. 0 \in 0..m  BY <1>1
  <2> QED BY <1>12, <1>13, <2>1
<1>17. ASSUME NEW i \in 1..m, NEW j \in 1..n
       PROVE  LeastOf(D[i][j], D[i - 1][j] + 1, D[i][j - 1] + 1, D[i - 1][j - 1] + IF a[i] = b[j] THEN 0 ELSE 1)
  <2>1. i \in 0..m /\ i - 1 \in 0..m /\ j \in 0..n /\ j - 1 \in 0..n /\ (j - 1) + 1 = j  BY <1>1
  <2>2. LeastOf(Row(i)[j + 1], Row(i - 1)[j + 1] + 1, Row(i)[j] + 1, Row(i - 1)[j] + G!Cost(a[i], b[j]))
    BY <1>11 DEF RowUpto
  <2>3. /\ D[i][j] = Row(i)[j + 1] /\ D[i - 1][j] = Row(i - 1)[j + 1]
        /\ D[i][j - 1] = Row(i)[j] /\ D[i - 1][j - 1] = Row(i - 1)[j]
    BY <1>13, <2>1
  <2> QED BY <2>2, <2>3 DEF G!Cost
<1>18. IsTable(D, a, b)
  BY <1>14, <1>15, <1>16, <1>17 DEF IsTable
<1>19. G!Distance(a, b) = D[m][n]
  <2>1. m \in 0..m /\ n \in 0..n  BY <1>1
  <2>2. Len(h[1..m]) = n + 1 /\ h[1..m] = Row(m)  BY <1>10, <2>1 DEF Row
  <2> QED BY <1>3, <1>13, <2>1, <2>2 DEF G!Last
<1> QED BY <1>18, <1>19

(* _levenshtein is right about the distances that are forgiven, for any    *)
(* two strings: it answers 0 for equal ones, at most 1 if one edit makes   *)
(* one of the other, at most 2 if two do, and more otherwise.              *)
THEOREM LevenshteinCorrect ==
    ASSUME NEW T, NEW K \in SUBSET T, NEW s \in Seq(T), NEW t \in Seq(K)
    PROVE  Measures(G!Levenshtein(s, t), s, t, K)
<1>1. t \in Seq(T) /\ Len(s) \in Nat /\ Len(t) \in Nat
  OBVIOUS
<1>2. CASE ~(Len(s) < Len(t))
  <2>1. PICK D : IsTable(D, s, t) /\ G!Distance(s, t) = D[Len(s)][Len(t)]
    BY <1>1, DistanceInTable
  <2>2. Measures(D[Len(s)][Len(t)], s, t, K)
    BY <2>1, TableMeasures
  <2> QED BY <1>2, <2>1, <2>2 DEF G!Levenshtein
<1>3. CASE Len(s) < Len(t)
  <2>1. PICK D : IsTable(D, t, s) /\ G!Distance(t, s) = D[Len(t)][Len(s)]
    BY <1>1, DistanceInTable
  <2> DEFINE m == Len(s)
             n == Len(t)
             F == [i \in 0..m |-> [j \in 0..n |-> D[j][i]]]
  <2>2. /\ \A i \in 0..n, j \in 0..m : D[i][j] \in Nat
        /\ \A i \in 0..n : D[i][0] = i
        /\ \A j \in 0..m : D[0][j] = j
        /\ \A i \in 1..n, j \in 1..m :
              LeastOf(D[i][j], D[i - 1][j] + 1, D[i][j - 1] + 1, D[i - 1][j - 1] + IF t[i] = s[j] THEN 0 ELSE 1)
    BY <2>1 DEF IsTable
  <2>3. \A i \in 0..m, j \in 0..n : F[i][j] = D[j][i]
    OBVIOUS
  <2>4. m \in Nat /\ n \in Nat  BY <1>1
  <2>5. Measures(D[n][m], s, t, K)
    <3> HIDE DEF F
    <3>1. \A i \in 0..m, j \in 0..n : F[i][j] \in Nat  BY <2>2, <2>3
    <3>2. \A i \in 0..m : F[i][0] = i
      <4>1. 0 \in 0..n  BY <2>4
      <4> QED BY <2>2, <2>3, <4>1
    <3>3. \A j \in 0..n : F[0][j] = j
      <4>1. 0 \in 0..m  BY <2>4
      <4> QED BY <2>2, <2>3, <4>1
    <3>4. ASSUME NEW i \in 1..m, NEW j \in 1..n
          PROVE  LeastOf(F[i][j], F[i - 1][j] + 1, F[i][j - 1] + 1, F[i - 1][j - 1] + IF s[i] = t[j] THEN 0 ELSE 1)
      <4> DEFINE e == IF s[i] = t[j] THEN 0 ELSE 1
      <4>1. LeastOf(D[j][i], D[j - 1][i] + 1, D[j][i - 1] + 1, D[j - 1][i - 1] + e)
        <5>1. e = IF t[j] = s[i] THEN 0 ELSE 1  OBVIOUS
        <5> HIDE DEF e
        <5> QED BY <2>2, <5>1
      <4>2. i \in 0..m /\ i - 1 \in 0..m /\ j \in 0..n /\ j - 1 \in 0..n  BY <2>4
      <4>3. /\ F[i][j] = D[j][i] /\ F[i - 1][j] = D[j][i - 1]
            /\ F[i][j - 1] = D[j - 1][i] /\ F[i - 1][j - 1] = D[j - 1][i - 1]
        BY <2>3, <4>2
      <4> HIDE DEF e
      <4>4. LeastOf(F[i][j], F[i - 1][j] + 1, F[i][j - 1] + 1, F[i - 1][j - 1] + e)
        BY <4>1, <4>3 DEF LeastOf
      <4> QED BY <4>4 DEF e
    <3>5. IsTable(F, s, t)  BY <3>1, <3>2, <3>3, <3>4 DEF IsTable
    <3>6. Measures(F[m][n], s, t, K)  BY <3>5, TableMeasures
    <3>7. F[m][n] = D[n][m]
      <4>1. m \in 0..m /\ n \in 0..n  BY <2>4
      <4> QED BY <2>3, <4>1
    <3> QED BY <3>6, <3>7
  <2> QED BY <1>3, <2>1, <2>5 DEF G!Levenshtein
<1> QED BY <1>2, <1>3

LEMMA EditedIs ==
    ASSUME NEW T, NEW K, NEW s \in Seq(T), NEW w
    PROVE  w \in G!Edited(s, K) <=> OneEdit(s, w, K)
<1> DEFINE A == {G!RemoveAt(s, i) : i \in DOMAIN s}
           B == {G!InsertAt(s, i, c) : i \in 1..(Len(s) + 1), c \in K}
           D == {G!ReplaceAt(s, i, c) : i \in DOMAIN s, c \in K}
<1>1. w \in A <=> \E i \in DOMAIN s : w = Shortened(s, i)
  BY Zenon DEF G!RemoveAt, Shortened
<1>2. w \in B <=> \E i \in 1..(Len(s) + 1), c \in K : w = Inserted(s, i, c)
  <2>1. w \in B <=> \E i \in 1..(Len(s) + 1), c \in K : w = G!InsertAt(s, i, c)
    OBVIOUS
  <2>2. \A i, c : G!InsertAt(s, i, c) = Inserted(s, i, c)
    BY Zenon DEF G!InsertAt, Inserted
  <2> QED BY <2>1, <2>2
<1>3. w \in D <=> \E i \in DOMAIN s, c \in K : w = Replaced(s, i, c)
  <2>1. w \in D <=> \E i \in DOMAIN s, c \in K : w = G!ReplaceAt(s, i, c)
    OBVIOUS
  <2>2. \A i, c : G!ReplaceAt(s, i, c) = Replaced(s, i, c)
    BY Zenon DEF G!ReplaceAt, Replaced
  <2> QED BY <2>1, <2>2
<1>4. G!Edited(s, K) = A \union B \union D
  BY DEF G!Edited
<1> HIDE DEF A, B, D
<1> QED BY <1>1, <1>2, <1>3, <1>4 DEF OneEdit

LEMMA PartialIsResemblance ==
    ASSUME NEW T, NEW K \in SUBSET T, NEW s \in Seq(T), NEW t \in Seq(K)
    PROVE  s = t \/ G!Partial(s, t) <=> G!Resembles(s, t, K)
<1> DEFINE k == G!MaxEdits(s, t)
           d == G!Levenshtein(s, t)
<1>1. k \in {0, 1, 2}
  BY DEF G!MaxEdits
<1>2. Measures(d, s, t, K)
  BY LevenshteinCorrect
<1>3. G!Forgiven(s, t, K) <=> \/ k >= 1 /\ OneEdit(s, t, K)
                              \/ k = 2 /\ \E w : OneEdit(s, w, K) /\ OneEdit(w, t, K)
  <2>1. \A w : w \in G!Edited(s, K) <=> OneEdit(s, w, K)
    BY EditedIs
  <2>2. ASSUME NEW w, OneEdit(s, w, K) PROVE t \in G!Edited(w, K) <=> OneEdit(w, t, K)
    <3>1. w \in Seq(T)  BY <2>2, OneEditType
    <3> QED BY <3>1, EditedIs
  <2>3. t \in UNION {G!Edited(w, K) : w \in G!Edited(s, K)} <=> \E w : OneEdit(s, w, K) /\ OneEdit(w, t, K)
    <3>1. t \in UNION {G!Edited(w, K) : w \in G!Edited(s, K)} <=> \E w \in G!Edited(s, K) : t \in G!Edited(w, K)
      OBVIOUS
    <3> QED BY <2>1, <2>2, <3>1
  <2> HIDE DEF k
  <2>4. G!Forgiven(s, t, K) <=> \/ k >= 1 /\ t \in G!Edited(s, K)
                                \/ k = 2 /\ t \in UNION {G!Edited(w, K) : w \in G!Edited(s, K)}
    BY DEF G!Forgiven, k
  <2> QED BY <2>1, <2>3, <2>4
<1>4. s = t \/ G!Partial(s, t) <=> s = t \/ G!PartOf(s, t) \/ G!PartOf(t, s) \/ (k > 0 /\ d <= k)
  BY DEF G!Partial
<1>5. G!Resembles(s, t, K) <=> s = t \/ G!PartOf(s, t) \/ G!PartOf(t, s) \/ G!Forgiven(s, t, K)
  BY DEF G!Resembles
<1> HIDE DEF k, d
<1>6. CASE k = 0
  <2>1. ~(k > 0) /\ ~(k >= 1) /\ k # 2  BY <1>6
  <2> QED BY <1>3, <1>4, <1>5, <2>1, Zenon
<1>7. CASE k = 1
  <2>1. k > 0 /\ k >= 1 /\ k # 2 /\ (d <= k <=> d <= 1)  BY <1>7
  <2> QED BY <1>2, <1>3, <1>4, <1>5, <2>1, Zenon DEF Measures, Near
<1>8. CASE k = 2
  <2>1. k > 0 /\ k >= 1 /\ k = 2 /\ (d <= k <=> d <= 2)  BY <1>8
  <2> QED BY <1>2, <1>3, <1>4, <1>5, <2>1, Zenon DEF Measures, Near, NearTwice
<1> QED BY <1>1, <1>6, <1>7, <1>8

(* The meters of a property, each with an identity of its own. *)
Numbered(meters) ==
    /\ \E n \in Nat : DOMAIN meters = 1..n
    /\ \A i, j \in DOMAIN meters : meters[i].id = meters[j].id => i = j
    /\ \A i \in DOMAIN meters : meters[i].id # "none"

(* What the match is to say of the meters. *)
Explained(found, text, meters) ==
    IF found.meter # "none"
    THEN \E i \in DOMAIN meters :
            /\ found.meter = meters[i].id
            /\ meters[i].serial = text \/ G!Partial(text, meters[i].serial)
            /\ found.confidence = "exact" => \A j \in DOMAIN meters : meters[j].serial = text <=> j = i
    ELSE \A i \in DOMAIN meters : meters[i].serial # text /\ ~G!Partial(text, meters[i].serial)

LEMMA LeastIs ==
    ASSUME NEW n \in Nat, NEW s \in SUBSET (1..n), s # {}
    PROVE  G!Min(s) \in s
<1>1. PICK x \in s : \A y \in s : x <= y
  <2>1. s \subseteq Nat  OBVIOUS
  <2> QED BY <2>1, LeastNumber
<1> QED BY <1>1 DEF G!Min

LEMMA MatchExplained ==
    ASSUME NEW meters, Numbered(meters), NEW text
    PROVE  Explained(G!Match(text, meters), text, meters)
<1> DEFINE exact   == {i \in DOMAIN meters : meters[i].serial = text}
           partial == {i \in DOMAIN meters \ exact : G!Partial(text, meters[i].serial)}
<1>1. PICK n \in Nat : DOMAIN meters = 1..n
  BY DEF Numbered
<1>2. exact \in SUBSET (1..n) /\ partial \in SUBSET (1..n)
  BY <1>1
<1>3. IsFiniteSet(exact)
  <2>1. IsFiniteSet(1..n)  BY FS_Interval
  <2> QED BY <1>2, <2>1, FS_Subset
<1>4. Cardinality(exact) \in Nat /\ (Cardinality(exact) = 0 <=> exact = {})
  BY <1>3, FS_CardinalityType, FS_EmptySet
<1>5. Cardinality(exact) = 1 => \A i, j \in exact : i = j
  <2>1. Cardinality(exact) = 1 => \E x : exact = {x}  BY <1>3, FS_Singleton
  <2> QED BY <2>1
<1>6. \A i \in DOMAIN meters : /\ i \in exact <=> meters[i].serial = text
                               /\ i \notin exact => (i \in partial <=> G!Partial(text, meters[i].serial))
  OBVIOUS
<1> HIDE DEF exact, partial
<1>7. LET found == G!Match(text, meters)
      IN  /\ Cardinality(exact) = 1 => found = G!FirstOf(exact, meters, "exact")
          /\ Cardinality(exact) > 1 => found = G!FirstOf(exact, meters, "partial")
          /\ exact = {} /\ partial # {} => found = G!FirstOf(partial, meters, "partial")
          /\ exact = {} /\ partial = {} => found = G!NoMatch
  <2>1. G!Cardinality(exact) = Cardinality(exact)
    BY DEF G!Cardinality, Cardinality
  <2>2. Cardinality(exact) = 1 => G!Match(text, meters) = G!FirstOf(exact, meters, "exact")
    BY <1>4, <2>1 DEF G!Match, exact, partial
  <2>3. Cardinality(exact) > 1 => G!Match(text, meters) = G!FirstOf(exact, meters, "partial")
    BY <1>4, <2>1 DEF G!Match, exact, partial
  <2>4. exact = {} /\ partial # {} => G!Match(text, meters) = G!FirstOf(partial, meters, "partial")
    BY <1>4, <2>1 DEF G!Match, exact, partial
  <2>5. exact = {} /\ partial = {} => G!Match(text, meters) = G!NoMatch
    BY <1>4, <2>1 DEF G!Match, exact, partial
  <2> QED BY <2>2, <2>3, <2>4, <2>5
<1>8. exact # {} => G!Min(exact) \in exact
  BY <1>2, LeastIs
<1>9. partial # {} => G!Min(partial) \in partial
  BY <1>2, LeastIs
<1>10. \A hits, c : /\ G!FirstOf(hits, meters, c).meter = meters[G!Min(hits)].id
                    /\ G!FirstOf(hits, meters, c).confidence = c
  BY DEF G!FirstOf
<1>11. \A i \in DOMAIN meters : meters[i].id # "none"
  BY DEF Numbered
<1>12. partial \subseteq DOMAIN meters /\ exact \subseteq DOMAIN meters
  BY <1>1, <1>2
<1>13. CASE Cardinality(exact) = 1
  <2> DEFINE i == G!Min(exact)
  <2>1. G!Match(text, meters) = G!FirstOf(exact, meters, "exact")  BY <1>4, <1>7, <1>13
  <2>2. i \in exact /\ i \in DOMAIN meters  BY <1>4, <1>8, <1>12, <1>13
  <2>3. \A j \in DOMAIN meters : meters[j].serial = text <=> j = i
    BY <1>5, <1>6, <1>13, <2>2
  <2>4. G!Match(text, meters).meter = meters[i].id  BY <1>10, <2>1
  <2> HIDE DEF i
  <2>5. meters[i].serial = text /\ meters[i].id # "none"  BY <1>6, <1>11, <2>2
  <2> QED BY <2>2, <2>3, <2>4, <2>5 DEF Explained
<1>14. CASE Cardinality(exact) > 1
  <2> DEFINE i == G!Min(exact)
  <2>1. G!Match(text, meters) = G!FirstOf(exact, meters, "partial")  BY <1>4, <1>7, <1>14
  <2>2. i \in exact /\ i \in DOMAIN meters  BY <1>4, <1>8, <1>12, <1>14
  <2>4. G!Match(text, meters).meter = meters[i].id /\ G!Match(text, meters).confidence # "exact"
    BY <1>10, <2>1
  <2> HIDE DEF i
  <2>5. meters[i].serial = text /\ meters[i].id # "none"  BY <1>6, <1>11, <2>2
  <2> QED BY <2>2, <2>4, <2>5 DEF Explained
<1>15. CASE exact = {} /\ partial # {}
  <2> DEFINE i == G!Min(partial)
  <2>1. G!Match(text, meters) = G!FirstOf(partial, meters, "partial")  BY <1>4, <1>7, <1>15
  <2>2. i \in partial /\ i \in DOMAIN meters /\ i \notin exact  BY <1>9, <1>12, <1>15
  <2>4. G!Match(text, meters).meter = meters[i].id /\ G!Match(text, meters).confidence # "exact"
    BY <1>10, <2>1
  <2> HIDE DEF i
  <2>5. G!Partial(text, meters[i].serial) /\ meters[i].id # "none"  BY <1>6, <1>11, <2>2
  <2> QED BY <2>2, <2>4, <2>5 DEF Explained
<1>16. CASE exact = {} /\ partial = {}
  <2>1. G!Match(text, meters) = G!NoMatch  BY <1>4, <1>7, <1>16
  <2>2. G!Match(text, meters).meter = "none"  BY <2>1 DEF G!NoMatch
  <2> QED BY <1>6, <1>16, <2>2 DEF Explained
<1> QED BY <1>4, <1>13, <1>14, <1>15, <1>16

(* From MatchSerial on, the match of a bulk scan is that of the serial kept. *)
SerialInv ==
    /\ serial \in SerialAnswers \union {None}
    /\ req.kind = "bulk" /\ pass \in {"zoom", "hint", "done"} =>
          match = IF serial = None THEN G!NoMatch ELSE G!Match(serial, MetersByNumber)

LEMMA SerialInit == G!Init => SerialInv
BY DEF G!Init, SerialInv

LEMMA SerialNext == RecognitionInv /\ SerialInv /\ [G!Next]_(G!vars) => SerialInv'
<1> SUFFICES ASSUME RecognitionInv, SerialInv, [G!Next]_(G!vars) PROVE SerialInv'
  OBVIOUS
<1>1. CASE G!Start
  <2>1. req.engine \in {"auto", "ocr", "llm"}
    BY RecognitionAssumption DEF RecognitionAssumption, RecognitionInv, G!Request
  <2>2. UNCHANGED <<req, serial, match>> /\ pass' \in {"first", "ocr", "recognised", "unavailable"}
    BY <1>1, <2>1 DEF G!Start
  <2> QED BY <2>2 DEF SerialInv
<1>2. CASE G!OcrFails  BY <1>2 DEF SerialInv, G!OcrFails
<1>3. CASE G!LlmError  BY <1>3 DEF SerialInv, G!LlmError, G!LlmFails
<1>4. CASE G!MatchSerial  BY <1>4 DEF SerialInv, G!MatchSerial
<1>5. CASE G!BulkDone  BY <1>5 DEF SerialInv, G!BulkDone
<1>6. CASE G!HintRescanKeep  BY <1>6 DEF SerialInv, G!HintRescanKeep
<1>7. ASSUME NEW a \in Answers, NEW s \in SerialAnswers,
             \/ G!FirstPass(a, s) \/ G!Retry(a, s) \/ G!BulkHint(a, s)
             \/ G!HintRescanAsk(a, s) \/ G!OcrScan(a, s)
      PROVE  SerialInv'
  <2>1. CASE G!FirstPass(a, s)
    <3>1. UNCHANGED <<req, match>> /\ serial' \in {s, None} /\ pass' \in {"retry", "ocr", "recognised"}
      BY <2>1 DEF G!FirstPass, G!AfterLlm
    <3> QED BY <3>1 DEF SerialInv
  <2>2. CASE G!Retry(a, s)
    <3>1. UNCHANGED <<req, match>> /\ serial' \in {s, serial, None} /\ pass' \in {"ocr", "recognised"}
      BY <2>2 DEF G!Retry, G!AfterLlm
    <3> QED BY <3>1 DEF SerialInv
  <2>3. CASE G!BulkHint(a, s)
    <3>1. /\ UNCHANGED <<req, match>> /\ serial' = (IF serial = None THEN s ELSE serial)
          /\ pass = "hint" /\ req.kind = "bulk" /\ match.meter # "none"
      BY <2>3 DEF G!BulkHint, G!BulkHintNeeded
    <3>2. serial # None
      BY <3>1 DEF SerialInv, G!NoMatch
    <3> QED BY <3>1, <3>2 DEF SerialInv
  <2>4. CASE G!HintRescanAsk(a, s)
    BY <2>4 DEF SerialInv, G!HintRescanAsk
  <2>5. CASE G!OcrScan(a, s)
    <3>1. UNCHANGED <<req, match>> /\ serial' = s /\ pass' = "recognised"
      BY <2>5 DEF G!OcrScan
    <3> QED BY <3>1 DEF SerialInv
  <2> QED BY <1>7, <2>1, <2>2, <2>3, <2>4, <2>5
<1>8. ASSUME NEW s \in SerialAnswers, G!SerialCrop(s) PROVE SerialInv'
  <2>1. UNCHANGED <<req, match>> /\ serial' \in {s, serial} /\ req.kind # "bulk"
    BY <1>8 DEF G!SerialCrop
  <2> QED BY <2>1 DEF SerialInv
<1>9. ASSUME NEW s \in SerialAnswers, G!ZoomPass(s) PROVE SerialInv'
  <2>1. /\ req' = req /\ pass = "zoom"
        /\ \/ UNCHANGED <<serial, match>>
           \/ s # None /\ serial' = s /\ match' = G!Match(s, MetersByNumber)
    BY <1>9 DEF G!ZoomPass
  <2>2. CASE UNCHANGED <<serial, match>>
    BY <2>1, <2>2 DEF SerialInv
  <2>3. CASE s # None /\ serial' = s /\ match' = G!Match(s, MetersByNumber)
    BY <2>1, <2>3 DEF SerialInv
  <2> QED BY <2>1, <2>2, <2>3
<1>10. CASE UNCHANGED G!vars
  <2>1. UNCHANGED <<req, pass, serial, match>>  BY <1>10 DEF G!vars
  <2> QED BY <2>1 DEF SerialInv
<1> QED
  BY <1>1, <1>2, <1>3, <1>4, <1>5, <1>6, <1>7, <1>8, <1>9, <1>10 DEF G!Next

LEMMA MetersAreNumbered ==
    /\ Numbered(MetersByNumber)
    /\ \A i \in DOMAIN MetersByNumber : MetersByNumber[i].serial \in Seq(G!ToSet(MetersByNumber[i].serial))
    /\ \A s \in SerialAnswers \ {None} : s \in Seq(G!ToSet(s))
BY RecognitionAssumption DEF RecognitionAssumption, Numbered

(* Symbols of the meters' serials; what an answer holds beyond them is of  *)
(* no use in a serial it resembles.                                        *)
LEMMA SerialsResemble ==
    ASSUME NEW s \in SerialAnswers \ {None}, NEW i \in DOMAIN MetersByNumber,
           NEW K, K = UNION {G!ToSet(m.serial) : m \in G!ToSet(MetersByNumber)}
    PROVE  s = MetersByNumber[i].serial \/ G!Partial(s, MetersByNumber[i].serial)
             <=> G!Resembles(s, MetersByNumber[i].serial, K)
<1> DEFINE t == MetersByNumber[i].serial
           T == K \union G!ToSet(s)
<1>1. t \in Seq(G!ToSet(t)) /\ s \in Seq(G!ToSet(s))
  BY MetersAreNumbered
<1>2. MetersByNumber[i] \in G!ToSet(MetersByNumber)
  BY DEF G!ToSet
<1>3. G!ToSet(t) \subseteq K
  BY <1>2
<1> HIDE DEF t
<1>4. t \in Seq(K)  BY <1>1, <1>3
<1>5. K \in SUBSET T /\ G!ToSet(s) \subseteq T  OBVIOUS
<1> HIDE DEF T
<1>6. s \in Seq(T)  BY <1>1, <1>5
<1>7. s = t \/ G!Partial(s, t) <=> G!Resembles(s, t, K)
  BY <1>4, <1>5, <1>6, PartialIsResemblance
<1> QED BY <1>7 DEF t

LEMMA MatchTells ==
    ASSUME SerialInv, pass = "done", req.kind = "bulk"
    PROVE  G!SerialExplainsMatch
<1> DEFINE K == UNION {G!ToSet(m.serial) : m \in G!ToSet(MetersByNumber)}
           Alike(m) == G!Resembles(serial, m.serial, K)
<1>1. match = IF serial = None THEN G!NoMatch ELSE G!Match(serial, MetersByNumber)
  BY DEF SerialInv
<1>2. \A m : m \in G!ToSet(MetersByNumber) <=> \E i \in DOMAIN MetersByNumber : m = MetersByNumber[i]
  BY DEF G!ToSet
<1>3. \A i, j \in DOMAIN MetersByNumber : MetersByNumber[i].id = MetersByNumber[j].id => i = j
  BY MetersAreNumbered DEF Numbered
<1>4. ASSUME NEW i \in DOMAIN MetersByNumber PROVE G!MeterById(MetersByNumber[i].id) = MetersByNumber[i]
  BY <1>2, <1>3 DEF G!MeterById
<1>5. CASE serial = None
  <2>1. match.meter = "none"  BY <1>1, <1>5 DEF G!NoMatch
  <2> QED BY <1>5, <2>1 DEF G!SerialExplainsMatch
<1>6. CASE serial # None
  <2>1. serial \in SerialAnswers \ {None}  BY <1>6 DEF SerialInv
  <2>2. Explained(match, serial, MetersByNumber)
    BY <1>1, <1>6, MatchExplained, MetersAreNumbered
  <2>3. ASSUME NEW i \in DOMAIN MetersByNumber
        PROVE  serial = MetersByNumber[i].serial \/ G!Partial(serial, MetersByNumber[i].serial)
                 <=> Alike(MetersByNumber[i])
    BY <2>1, SerialsResemble
  <2> HIDE DEF Alike
  <2>4. CASE match.meter # "none"
    <3>1. PICK i \in DOMAIN MetersByNumber :
             /\ match.meter = MetersByNumber[i].id
             /\ MetersByNumber[i].serial = serial \/ G!Partial(serial, MetersByNumber[i].serial)
             /\ match.confidence = "exact" =>
                   \A j \in DOMAIN MetersByNumber : MetersByNumber[j].serial = serial <=> j = i
      BY <2>2, <2>4 DEF Explained
    <3>2. Alike(G!MeterById(match.meter))
      <4>1. G!MeterById(match.meter) = MetersByNumber[i]  BY <1>4, <3>1
      <4> QED BY <2>3, <3>1, <4>1
    <3>3. match.confidence = "exact" =>
             \A m \in G!ToSet(MetersByNumber) : m.serial = serial <=> m.id = match.meter
      <4> SUFFICES ASSUME match.confidence = "exact", NEW m \in G!ToSet(MetersByNumber)
                   PROVE  m.serial = serial <=> m.id = match.meter
        OBVIOUS
      <4>1. PICK j \in DOMAIN MetersByNumber : m = MetersByNumber[j]  BY <1>2
      <4>2. m.serial = serial <=> j = i  BY <3>1, <4>1
      <4>3. m.id = match.meter <=> j = i  BY <1>3, <3>1, <4>1
      <4> QED BY <4>2, <4>3
    <3> QED BY <1>6, <2>4, <3>2, <3>3 DEF G!SerialExplainsMatch, Alike
  <2>5. CASE match.meter = "none"
    <3>1. \A i \in DOMAIN MetersByNumber :
             MetersByNumber[i].serial # serial /\ ~G!Partial(serial, MetersByNumber[i].serial)
      BY <2>2, <2>5 DEF Explained
    <3>2. \A m \in G!ToSet(MetersByNumber) : ~Alike(m)
      BY <1>2, <2>3, <3>1
    <3> QED BY <2>5, <3>2 DEF G!SerialExplainsMatch, Alike
  <2> QED BY <2>4, <2>5
<1> QED BY <1>5, <1>6

(* A meter is given a photo exactly when the serial kept resembles its     *)
(* own, for any serials, meters and answers: equal, part of one another,   *)
(* or one or two edits apart as the length allows; the table of distances  *)
(* of _levenshtein is right about that.                                    *)
THEOREM SerialsExplained == AllSpec => []SerialExplainsMatch
<1>1. AllInit => RecognitionInv /\ SerialInv
  BY Alone, RecognitionInit, SerialInit
<1>2. (RecognitionInv /\ SerialInv) /\ [AllNext]_all => (RecognitionInv /\ SerialInv)'
  BY Alone, RecognitionNext, SerialNext
<1>3. RecognitionInv /\ SerialInv => SerialExplainsMatch
  BY MatchTells DEF SerialExplainsMatch, G!SerialExplainsMatch
<1> QED BY <1>1, <1>2, <1>3, PTL DEF AllSpec

----------------------------------------------------------------------------
(* OilMarket *)
OfferRow == [day : Int, price : O!Plausible, found : BOOLEAN]

(* Prices of finitely many days, one each. *)
PriceTable(table) ==
    /\ IsFiniteSet(table) /\ table \subseteq O!Row
    /\ \A r, s \in table : r.day = s.day => r = s

(* The row a task is about to store. *)
Offer(w) == [day |-> job[w].day, price |-> job[w].price]

(* What a task found out about the day may be stale when it stores; that   *)
(* the source named its price on that day is not.                          *)
MarketInv ==
    /\ today \in Int
    /\ PriceTable(prices)
    /\ prices \subseteq offered
    /\ task \in [Tasks -> {"idle", "fetching", "lookup", "store"}]
    /\ job = [w \in Tasks |-> job[w]]
    /\ \A w \in Tasks : task[w] \in {"lookup", "store"} => job[w] \in OfferRow
    /\ \A w \in Tasks : task[w] = "store" => Offer(w) \in offered

LEMMA MarketInit == O!Init => MarketInv
BY MarketAssumption DEF MarketAssumption, O!Init, MarketInv, PriceTable

LEMMA StoreKeepsDays ==
    ASSUME MarketInv, NEW w \in Tasks, O!Store(w)
    PROVE  /\ PriceTable(prices')
           /\ prices' \subseteq offered'
           /\ O!Days(prices) \subseteq O!Days(prices')
<1>1. Offer(w) \in offered /\ offered' = offered /\ prices \subseteq offered
  BY DEF MarketInv, O!Store, O!Go
<1>2. PriceTable(prices)
  BY DEF MarketInv
<1>3. Offer(w).day = job[w].day /\ Offer(w) \in O!Row
  BY DEF Offer, OfferRow, MarketInv, O!Store, O!Go, O!Row
<1>4. \/ prices' = {r \in prices : r.day # job[w].day} \union {Offer(w)}
      \/ prices' = prices \union {Offer(w)} /\ job[w].day \notin O!Days(prices)
      \/ prices' = prices
  BY DEF O!Store, O!Put, O!UniqueDay, Offer
<1> HIDE DEF Offer
<1>5. \A r, s \in prices' : r.day = s.day => r = s
  BY <1>2, <1>3, <1>4 DEF O!Days, PriceTable
<1>6. prices' \subseteq offered'
  BY <1>1, <1>4
<1>7. O!Days(prices) \subseteq O!Days(prices')
  <2> SUFFICES ASSUME NEW r \in prices PROVE \E s \in prices' : s.day = r.day
    BY DEF O!Days
  <2> QED BY <1>3, <1>4
<1>8. IsFiniteSet(prices')
  <2> DEFINE others == {r \in prices : r.day # job[w].day}
  <2>1. IsFiniteSet(prices) /\ IsFiniteSet(others)
    BY <1>2, FS_Subset DEF PriceTable
  <2>2. IsFiniteSet(others \union {Offer(w)}) /\ IsFiniteSet(prices \union {Offer(w)})
    BY <2>1, FS_AddElement
  <2> QED BY <1>4, <2>1, <2>2
<1>9. prices' \subseteq O!Row
  BY <1>2, <1>3, <1>4 DEF PriceTable
<1> QED BY <1>5, <1>6, <1>7, <1>8, <1>9 DEF PriceTable

LEMMA MarketNext == MarketInv /\ [O!Next]_(O!vars) => MarketInv'
<1> SUFFICES ASSUME MarketInv, [O!Next]_(O!vars) PROVE MarketInv'
  OBVIOUS
<1>1. ASSUME NEW w \in Tasks, O!Begin(w) PROVE MarketInv'
  BY <1>1 DEF MarketInv, Offer, O!Begin, O!Go
<1>2. ASSUME NEW w \in Tasks, NEW price \in Offers, O!Answer(w, price) PROVE MarketInv'
  <2>1. CASE price \notin O!Plausible
    BY <1>2, <2>1 DEF MarketInv, Offer, O!Answer, O!Go
  <2>2. CASE price \in O!Plausible
    <3>1. /\ job' = [job EXCEPT ![w] = [day |-> today, price |-> price, found |-> FALSE]]
          /\ task' = [task EXCEPT ![w] = "lookup"]
          /\ UNCHANGED <<today, prices, offered>>
      BY <1>2, <2>2 DEF O!Answer, O!Go
    <3>2. [day |-> today, price |-> price, found |-> FALSE] \in OfferRow
      BY <2>2 DEF MarketInv, OfferRow
    <3> QED BY <3>1, <3>2 DEF MarketInv, Offer
  <2> QED BY <2>1, <2>2
<1>3. ASSUME NEW w \in Tasks, O!Lookup(w) PROVE MarketInv'
  <2> DEFINE found == today \in O!Days(prices)
  <2>1. /\ job' = [job EXCEPT ![w].day = today, ![w].found = found]
        /\ task' = [task EXCEPT ![w] = "store"] /\ task[w] = "lookup"
        /\ offered' = offered \union {[day |-> today, price |-> job[w].price]}
        /\ UNCHANGED <<today, prices>>
    BY <1>3 DEF O!Lookup, O!Go
  <2>2. found \in BOOLEAN /\ today \in Int /\ job[w] \in OfferRow
    BY <2>1 DEF MarketInv
  <2> HIDE DEF found
  <2>3. job'[w] = [job[w] EXCEPT !.day = today, !.found = found]
    BY <2>1 DEF MarketInv
  <2>4. job'[w] \in OfferRow /\ job'[w].day = today /\ job'[w].price = job[w].price
    BY <2>2, <2>3 DEF OfferRow
  <2>5. Offer(w)' \in offered'
    <3>1. Offer(w)' = [day |-> today, price |-> job[w].price]
      BY <2>4 DEF Offer
    <3>2. offered' = offered \union {[day |-> today, price |-> job[w].price]}
      BY <2>1
    <3> QED BY <3>1, <3>2
  <2>6. \A u \in Tasks : u # w => job'[u] = job[u] /\ task'[u] = task[u]
    BY <2>1 DEF MarketInv
  <2>7. job' = [u \in Tasks |-> job'[u]]
    BY <2>1 DEF MarketInv
  <2> QED BY <2>1, <2>4, <2>5, <2>6, <2>7 DEF MarketInv, Offer
<1>4. ASSUME NEW w \in Tasks, O!Store(w) PROVE MarketInv'
  BY <1>4, StoreKeepsDays DEF MarketInv, Offer, O!Store, O!Go
<1>5. ASSUME NEW w \in Tasks, O!GiveUp(w) PROVE MarketInv'
  BY <1>5 DEF MarketInv, Offer, O!GiveUp
<1>6. CASE O!Midnight
  BY <1>6 DEF MarketInv, Offer, O!Midnight
<1>7. CASE UNCHANGED O!vars
  BY <1>7 DEF MarketInv, Offer, O!vars
<1> QED BY <1>1, <1>2, <1>3, <1>4, <1>5, <1>6, <1>7 DEF O!Next

(* Whatever fetches overlap, also across midnight, a day has one price,    *)
(* the source named it on that day, and no day loses its price, for any    *)
(* number of processes and any plausible range.                            *)
THEOREM DaysKeepOnePrice == AllSpec => OnePricePerDay
<1> DEFINE Kept == /\ \A r, s \in prices' : r.day = s.day => r = s
                   /\ prices' \subseteq offered'
                   /\ O!Days(prices) \subseteq O!Days(prices')
<1>1. AllInit => MarketInv  BY Alone, MarketInit
<1>2. MarketInv /\ [AllNext]_all => MarketInv'  BY Alone, MarketNext
<1>3. MarketInv /\ [AllNext]_all => [Kept]_(O!vars)
  <2> SUFFICES ASSUME MarketInv, O!Next PROVE Kept
    BY Alone
  <2>1. MarketInv'  BY MarketNext
  <2>2. \A w \in Tasks : O!Store(w) => Kept
    BY StoreKeepsDays DEF PriceTable
  <2>3. (\E w \in Tasks : O!Store(w)) \/ prices' = prices
    BY DEF O!Next, O!Begin, O!Lookup, O!GiveUp, O!Answer, O!Midnight
  <2> QED BY <2>1, <2>2, <2>3 DEF MarketInv, PriceTable
<1> HIDE DEF Kept
<1>4. AllSpec => [][Kept]_(O!vars)
  BY <1>1, <1>2, <1>3, PTL DEF AllSpec
<1> QED BY <1>4 DEF OnePricePerDay, O!OnePricePerDay, Kept

Price(table) == [r \in table |-> r.price]

LEMMA TotalSum ==
    ASSUME NEW table, IsFiniteSet(table), Price(table) \in [table -> Int]
    PROVE  \E sum : SumsUp(sum, Price(table), table) /\ O!Total(table) = sum[table]
<1> DEFINE f == Price(table)
           Eqn(g) == g = [s \in SUBSET table |->
                            IF s = {} THEN 0
                            ELSE (CHOOSE r \in s : TRUE).price + g[s \ {CHOOSE r \in s : TRUE}]]
<1>1. \A g : Folded(g, f, table) <=> Eqn(g)
  <2> SUFFICES ASSUME NEW g PROVE Folded(g, f, table) <=> Eqn(g)
    OBVIOUS
  <2>1. ASSUME NEW s \in SUBSET table
        PROVE  Folding(g, f, s) = IF s = {} THEN 0
                                  ELSE (CHOOSE r \in s : TRUE).price + g[s \ {CHOOSE r \in s : TRUE}]
    <3>1. s # {} => Chosen(s) \in table /\ f[Chosen(s)] = Chosen(s).price
      BY ChosenIn DEF Price
    <3> QED BY <3>1 DEF Folding, Chosen
  <2> QED BY <2>1 DEF Folded
<1>2. PICK h : Eqn(h)
  <2>1. \E g : Folded(g, f, table)
    <3> HIDE DEF Eqn, f
    <3> QED BY FoldExists DEF f
  <2> HIDE DEF Eqn
  <2> QED BY <1>1, <2>1
<1> DEFINE sum == CHOOSE g : Eqn(g)
<1>3. O!Total(table) = sum[table]
  BY DEF O!Total, O!MapThenSumSet, O!MapThenFoldSet
<1> HIDE DEF Eqn, f
<1>4. Eqn(sum)  BY <1>2
<1> HIDE DEF sum
<1>5. SumsUp(sum, f, table)  BY <1>1, <1>4, FoldSums DEF f
<1> QED BY <1>3, <1>5 DEF f

LEMMA TotalOfPart ==
    ASSUME NEW table, PriceTable(table), NEW part \in SUBSET table,
           NEW sums, SumsUp(sums, Price(table), table)
    PROVE  O!Total(part) = sums[part]
<1>1. IsFiniteSet(part)
  BY FS_Subset DEF PriceTable
<1>2. \A r \in table : r.price \in Int
  BY DEF PriceTable, O!Row, O!Plausible
<1> DEFINE f == Price(part)
           g == Price(table)
<1>3. f \in [part -> Int] /\ g \in [table -> Int] /\ \A r \in part : f[r] = g[r]
  BY <1>2 DEF Price
<1>4. PICK sum : SumsUp(sum, f, part) /\ O!Total(part) = sum[part]
  BY <1>1, <1>3, TotalSum
<1> HIDE DEF f, g
<1>5. SumsUp(sums, g, table)
  BY DEF g
<1>6. sum[part] = sums[part]
  BY <1>1, <1>3, <1>4, <1>5, SumsAgree
<1> QED BY <1>4, <1>6

(* The total, with the price of one row apart. *)
LEMMA TotalApart ==
    ASSUME NEW table, PriceTable(table), NEW row \in table
    PROVE  O!Total(table \ {row}) \in Int /\ O!Total(table) = row.price + O!Total(table \ {row})
<1>1. IsFiniteSet(table) /\ Price(table) \in [table -> Int] /\ Price(table)[row] = row.price
  BY DEF Price, PriceTable, O!Row, O!Plausible
<1>2. PICK sums : SumsUp(sums, Price(table), table) /\ O!Total(table) = sums[table]
  BY <1>1, TotalSum
<1>3. O!Total(table \ {row}) = sums[table \ {row}]
  <2>1. table \ {row} \in SUBSET table  OBVIOUS
  <2> QED BY <1>2, <2>1, TotalOfPart
<1>4. sums[table] = Price(table)[row] + sums[table \ {row}] /\ sums[table \ {row}] \in Int
  BY <1>1, <1>2 DEF SumsUp
<1> QED BY <1>1, <1>2, <1>3, <1>4

LEMMA LatestDay ==
    ASSUME NEW table, PriceTable(table), table # {}
    PROVE  \E row \in table : /\ O!LastRecorded(table) = row.day /\ O!Current(table) = row
                              /\ \A r \in table : r.day <= row.day
<1> DEFINE day == [r \in table |-> r.day]
<1>1. day \in [table -> Int] /\ IsFiniteSet(table)
  BY DEF PriceTable, O!Row
<1>2. PICK row \in table : \A r \in table : day[r] <= day[row]
  <2> HIDE DEF day
  <2> QED BY <1>1, SomethingIsLargest
<1>3. row.day \in O!Days(table) /\ \A x \in O!Days(table) : row.day >= x
  BY <1>1, <1>2 DEF O!Days
<1>4. O!Days(table) \subseteq Int
  BY DEF O!Days, PriceTable, O!Row
<1>5. O!LastRecorded(table) = row.day
  <2> DEFINE days == O!Days(table)
  <2>1. \A x \in days : (\A y \in days : x >= y) => x = row.day
    BY <1>3, <1>4
  <2> HIDE DEF days
  <2> QED BY <1>3, <2>1 DEF O!LastRecorded, O!Max, days
<1>6. O!Current(table) = row
  BY <1>5 DEF O!Current, PriceTable
<1>7. \A r \in table : r.day <= row.day
  BY <1>2
<1> QED BY <1>5, <1>6, <1>7

LEMMA Arithmetic ==
    ASSUME NEW p \in Int, NEW q \in Int, 0 < q, q < p, NEW n \in Nat, NEW total \in Int
    PROVE  /\ \* an average the price does not count in
              LET before == p * n - total  after == q * n - total
              IN  /\ 20000 * before <= -999 * total => 20000 * after <= -999 * total
                  /\ 20000 * after >= 999 * total => 20000 * before >= 999 * total
           /\ \* one it counts in
              LET before == p * (n + 1) - (p + total)  after == q * (n + 1) - (q + total)
              IN  /\ 20000 * before <= -999 * (p + total) => 20000 * after <= -999 * (q + total)
                  /\ (n = 0 => total = 0) /\ 20000 * after >= 999 * (q + total)
                     => 20000 * before >= 999 * (p + total)
<1> DEFINE d == p - q
           x == d * n
           y == q * n
<1>1. d \in Int /\ x \in Int /\ y \in Int /\ d > 0 /\ p = q + d
  OBVIOUS
<1>2. x >= 0 /\ (n >= 1 => x >= d) /\ (n = 0 => y = 0 /\ x = 0)
  OBVIOUS
<1>3. p * n = x + y /\ q * n = y /\ p * (n + 1) = x + y + p /\ q * (n + 1) = y + q
  OBVIOUS
<1> HIDE DEF d, x, y
<1> QED BY <1>1, <1>2, <1>3

LEMMA SameCount == \A s : O!Cardinality(s) = Cardinality(s)
BY DEF O!Cardinality, Cardinality

(* The price of the day counts in the average of the recent prices and not *)
(* in that of the seasonal ones.                                           *)
LEMMA Benchmarked ==
    ASSUME NEW table, PriceTable(table), NEW row \in table,
           O!LastRecorded(table) = row.day, O!Current(table) = row, \A r \in table : r.day <= row.day,
           NEW rest, rest = {r \in table \ {row} : r.day >= row.day - RecentDays},
           NEW n, n = Cardinality(rest), NEW seasonal, seasonal = O!Seasonal(table)
    PROVE  /\ n \in Nat /\ O!Total(rest) \in Int /\ (n = 0 => O!Total(rest) = 0)
           /\ Cardinality(seasonal) \in Nat /\ O!Total(seasonal) \in Int
           /\ O!Benchmarks(table) = {O!Recent(table), seasonal} \ {{}} /\ O!Recent(table) # {}
           /\ O!Deviation(table, O!Recent(table)) = row.price * (n + 1) - (row.price + O!Total(rest))
           /\ O!Total(O!Recent(table)) = row.price + O!Total(rest)
           /\ O!Deviation(table, seasonal) = row.price * Cardinality(seasonal) - O!Total(seasonal)
<1> DEFINE recent == O!Recent(table)
<1>1. row \in recent /\ rest = recent \ {row} /\ recent \subseteq table /\ seasonal \subseteq table
  <2>1. row.day \in Int /\ row.day >= row.day - RecentDays
    BY MarketAssumption DEF MarketAssumption, PriceTable, O!Row
  <2> QED BY <2>1 DEF O!Recent, O!Seasonal
<1>2. PriceTable(recent) /\ PriceTable(rest) /\ PriceTable(seasonal)
  BY <1>1, FS_Subset DEF PriceTable
<1> HIDE DEF recent
<1>3. n \in Nat /\ Cardinality(recent) = n + 1 /\ Cardinality(seasonal) \in Nat
  BY <1>1, <1>2, FS_RemoveElement, FS_CardinalityType DEF PriceTable
<1>4. O!Total(rest) \in Int /\ O!Total(recent) = row.price + O!Total(rest)
  BY <1>1, <1>2, TotalApart
<1>5. \A s : PriceTable(s) => /\ O!Total(s) \in Int
                             /\ (s = {} => O!Total(s) = 0)
  <2> SUFFICES ASSUME NEW s, PriceTable(s) PROVE O!Total(s) \in Int /\ (s = {} => O!Total(s) = 0)
    OBVIOUS
  <2>1. IsFiniteSet(s) /\ Price(s) \in [s -> Int]
    BY DEF PriceTable, Price, O!Row, O!Plausible
  <2>2. PICK sum : SumsUp(sum, Price(s), s) /\ O!Total(s) = sum[s]
    BY <2>1, TotalSum
  <2> QED BY <2>2 DEF SumsUp
<1>6. n = 0 => rest = {}
  BY <1>2, FS_EmptySet DEF PriceTable
<1>7. O!Benchmarks(table) = {recent, seasonal} \ {{}} /\ recent # {}
  BY <1>1 DEF O!Benchmarks, recent
<1>8. /\ O!Deviation(table, recent) = row.price * (n + 1) - (row.price + O!Total(rest))
      /\ O!Deviation(table, seasonal) = row.price * Cardinality(seasonal) - O!Total(seasonal)
  BY <1>3, <1>4, SameCount DEF O!Deviation
<1> QED BY <1>2, <1>3, <1>4, <1>5, <1>6, <1>7, <1>8 DEF recent

(* Of two tables that differ in the latest price the cheaper one is as far *)
(* below every average, and less above.                                    *)
Cheaper(earlier, later) ==
    \E old \in earlier, new \in later :
       /\ earlier \ {old} = later \ {new}
       /\ old.day = O!Max(O!Days(earlier)) /\ new.price < old.price

LEMMA SignalIs ==
    ASSUME NEW table
    PROVE  LET few   == O!Cardinality(O!Days(table)) < MinRecords
               cheap == \A b \in O!Benchmarks(table) : O!Below(table, b)
               dear  == \A b \in O!Benchmarks(table) : O!Above(table, b)
           IN  /\ O!Signal(table) = "buy" <=> ~few /\ cheap
               /\ O!Signal(table) = "avoid" <=> ~few /\ ~cheap /\ dear
<1> DEFINE few   == O!Cardinality(O!Days(table)) < MinRecords
           cheap == \A b \in O!Benchmarks(table) : O!Below(table, b)
           dear  == \A b \in O!Benchmarks(table) : O!Above(table, b)
<1>1. /\ few => O!Signal(table) = "insufficient_data"
      /\ ~few /\ cheap => O!Signal(table) = "buy"
      /\ ~few /\ ~cheap /\ dear => O!Signal(table) = "avoid"
      /\ ~few /\ ~cheap /\ ~dear => O!Signal(table) = "wait"
  BY DEF O!Signal
<1> HIDE DEF few, cheap, dear
<1>2. /\ O!Signal(table) = "buy" <=> ~few /\ cheap
      /\ O!Signal(table) = "avoid" <=> ~few /\ ~cheap /\ dear
  BY <1>1
<1> QED BY <1>2 DEF few, cheap, dear

LEMMA RankIs ==
    ASSUME NEW signal
    PROVE  /\ signal = "buy" => O!Rank(signal) = 2
           /\ signal = "avoid" => O!Rank(signal) = 0
           /\ signal \notin {"buy", "avoid"} => O!Rank(signal) = 1
BY DEF O!Rank

LEMMA SignalsCompare ==
    ASSUME NEW earlier, PriceTable(earlier), NEW later, PriceTable(later),
           O!Days(later) = O!Days(earlier), Cheaper(earlier, later)
    PROVE  O!Rank(O!Signal(earlier)) <= O!Rank(O!Signal(later))
<1>1. PICK old \in earlier, new \in later :
         /\ earlier \ {old} = later \ {new}
         /\ old.day = O!Max(O!Days(earlier)) /\ new.price < old.price
  BY DEF Cheaper
<1>2. /\ O!LastRecorded(earlier) = old.day /\ O!Current(earlier) = old
      /\ \A r \in earlier : r.day <= old.day
  <2>1. PICK row \in earlier : /\ O!LastRecorded(earlier) = row.day /\ O!Current(earlier) = row
                            /\ \A r \in earlier : r.day <= row.day
    BY LatestDay
  <2>2. row = old
    BY <1>1, <2>1 DEF O!LastRecorded, PriceTable
  <2> QED BY <2>1, <2>2
<1>3. new.day = old.day
  <2> SUFFICES ASSUME new.day # old.day PROVE FALSE
    OBVIOUS
  <2>1. PICK r \in later : r.day = old.day
    BY DEF O!Days
  <2>2. r \in earlier \ {old}
    BY <1>1, <2>1
  <2> QED BY <2>1, <2>2 DEF PriceTable
<1>4. /\ O!LastRecorded(later) = new.day /\ O!Current(later) = new
      /\ \A r \in later : r.day <= new.day
  <2>1. PICK row \in later : /\ O!LastRecorded(later) = row.day /\ O!Current(later) = row
                             /\ \A r \in later : r.day <= row.day
    BY LatestDay
  <2>2. row = new
    BY <1>2, <1>3, <2>1 DEF O!LastRecorded, PriceTable
  <2> QED BY <2>1, <2>2
<1> DEFINE rest == {r \in earlier \ {old} : r.day >= old.day - RecentDays}
           n == Cardinality(rest)
           seasonal == O!Seasonal(earlier)
           N == Cardinality(seasonal)
           p == old.price
           q == new.price
           total == O!Total(rest)
           Total == O!Total(seasonal)
<1>5. rest = {r \in later \ {new} : r.day >= new.day - RecentDays}
  BY <1>1, <1>3
<1>6. seasonal = O!Seasonal(later)
  <2>1. old.day \in Int /\ ~(old.day < old.day - SeasonalAge)
    BY MarketAssumption DEF MarketAssumption, PriceTable, O!Row
  <2>2. seasonal = {r \in earlier \ {old} : /\ r.day < old.day - SeasonalAge
                                          /\ O!DayOfYearDistance(old.day, r.day) <= SeasonalDays}
    BY <1>2, <2>1 DEF O!Seasonal
  <2>3. O!Seasonal(later) = {r \in later \ {new} : /\ r.day < old.day - SeasonalAge
                                                  /\ O!DayOfYearDistance(old.day, r.day) <= SeasonalDays}
    BY <1>3, <1>4, <2>1 DEF O!Seasonal
  <2> QED BY <1>1, <2>2, <2>3
<1> HIDE DEF rest, n, seasonal, N, total, Total
<1>7. p \in Int /\ q \in Int /\ 0 < q /\ q < p
  BY <1>1, MarketAssumption DEF MarketAssumption, PriceTable, O!Row, O!Plausible
<1>8. /\ n \in Nat /\ total \in Int /\ (n = 0 => total = 0) /\ N \in Nat /\ Total \in Int
      /\ O!Benchmarks(earlier) = {O!Recent(earlier), seasonal} \ {{}} /\ O!Recent(earlier) # {}
      /\ O!Deviation(earlier, O!Recent(earlier)) = p * (n + 1) - (p + total)
      /\ O!Total(O!Recent(earlier)) = p + total
      /\ O!Deviation(earlier, seasonal) = p * N - Total
  BY <1>2, Benchmarked DEF rest, n, seasonal, N, total, Total
<1>9. /\ O!Benchmarks(later) = {O!Recent(later), seasonal} \ {{}} /\ O!Recent(later) # {}
      /\ O!Deviation(later, O!Recent(later)) = q * (n + 1) - (q + total)
      /\ O!Total(O!Recent(later)) = q + total
      /\ O!Deviation(later, seasonal) = q * N - Total
  BY <1>4, <1>5, <1>6, Benchmarked DEF n, N, total, Total
<1> HIDE DEF p, q
<1>10. /\ O!Below(earlier, O!Recent(earlier)) => O!Below(later, O!Recent(later))
       /\ O!Above(later, O!Recent(later)) => O!Above(earlier, O!Recent(earlier))
  BY <1>7, <1>8, <1>9, Arithmetic DEF O!Below, O!Above
<1>11. /\ O!Below(earlier, seasonal) => O!Below(later, seasonal)
       /\ O!Above(later, seasonal) => O!Above(earlier, seasonal)
  BY <1>7, <1>8, <1>9, Arithmetic DEF O!Below, O!Above, Total
<1>12. /\ (\A b \in O!Benchmarks(earlier) : O!Below(earlier, b)) => \A b \in O!Benchmarks(later) : O!Below(later, b)
       /\ (\A b \in O!Benchmarks(later) : O!Above(later, b)) => \A b \in O!Benchmarks(earlier) : O!Above(earlier, b)
  BY <1>8, <1>9, <1>10, <1>11
<1>13. /\ O!Signal(earlier) = "buy" => O!Signal(later) = "buy"
       /\ O!Signal(later) = "avoid" => O!Signal(earlier) = "avoid"
  BY <1>12, SignalIs
<1> QED BY <1>13, RankIs

(* Oil that gets cheaper while nothing else changes is never a worse buy,  *)
(* although the price also lowers the average it is compared with: for any *)
(* history of prices, any windows of the averages and any season.          *)
THEOREM SignalsAreMonotone == AllSpec => CheaperNeverWorse
<1> DEFINE Monotone == O!Days(prices') = O!Days(prices) /\ Cheaper(prices, prices')
                       => O!Rank(O!Signal(prices)) <= O!Rank(O!Signal(prices'))
<1>1. AllInit => MarketInv  BY Alone, MarketInit
<1>2. MarketInv /\ [AllNext]_all => MarketInv'  BY Alone, MarketNext
<1>3. MarketInv /\ MarketInv' => [Monotone]_(O!vars)
  <2> SUFFICES ASSUME MarketInv, MarketInv' PROVE Monotone
    OBVIOUS
  <2>1. PriceTable(prices) /\ PriceTable(prices')
    BY DEF MarketInv
  <2> QED BY <2>1, SignalsCompare
<1> DEFINE Goal == (/\ O!Days(prices') = O!Days(prices)
                    /\ \E old \in prices, new \in prices' :
                          /\ prices \ {old} = prices' \ {new}
                          /\ old.day = O!Max(O!Days(prices)) /\ new.price < old.price)
                   => O!Rank(O!Signal(prices)) <= O!Rank(O!Signal(prices'))
<1>4. Monotone => Goal
  BY DEF Cheaper
<1> HIDE DEF Monotone, Goal
<1>5. AllSpec => [][Goal]_(O!vars)
  BY <1>1, <1>2, <1>3, <1>4, PTL DEF AllSpec
<1> QED BY <1>5 DEF CheaperNeverWorse, O!CheaperNeverWorse, Goal

----------------------------------------------------------------------------
(* Retention *)

(* A row the job deleted held no evidence when it was, and is locked from  *)
(* then on; ids the job uses are of its own.                               *)
RetentionInv ==
    /\ readings = [i \in R!Ids |-> readings[i]]
    /\ nextId \in Nat \ {0}
    /\ IsFiniteSet(averages)
    /\ \A i \in R!Ids : i >= nextId => readings[i] = None
    /\ \A i \in deleted : i \in R!Rows /\ ~R!Evidence(readings[i])
    /\ \A i \in DOMAIN inserted : i \in R!Ids /\ i < nextId /\ readings[i] = None

LEMMA RetentionInit == R!Init => RetentionInv
<1> SUFFICES ASSUME R!Init PROVE RetentionInv
  OBVIOUS
<1>1. PICK table \in StoredReadings :
        /\ readings = [i \in R!Ids |-> IF i \in DOMAIN table THEN table[i] ELSE None]
        /\ nextId = Cardinality(DOMAIN table) + 1
  BY DEF R!Init, R!Cardinality, Cardinality
<1>2. PICK n \in 0..MaxId : DOMAIN table = 1..n
  BY RetentionAssumption DEF RetentionAssumption
<1>3. nextId = n + 1
  <2>1. MaxId \in Nat /\ n \in Nat
    BY <1>2, RetentionAssumption DEF RetentionAssumption
  <2>2. Cardinality(1..n) = n
    BY <2>1, FS_Interval
  <2> QED BY <1>1, <1>2, <2>2
<1>4. averages = {} /\ deleted = {} /\ inserted = <<>>
  BY DEF R!Init
<1>5. IsFiniteSet(averages)
  BY <1>4, FS_EmptySet
<1>6. \A i \in R!Ids : i >= nextId => readings[i] = None
  BY <1>1, <1>2, <1>3 DEF R!Ids
<1>7. DOMAIN inserted = {}
  BY <1>4
<1> QED BY <1>1, <1>2, <1>3, <1>4, <1>5, <1>6, <1>7 DEF RetentionInv

LEMMA SelectKeeps == ASSUME RetentionInv, R!SelectAverages PROVE RetentionInv'
<1> DEFINE found == {j \in R!Seen : R!Matches(j)}
<1>1. IsFiniteSet(R!Ids)
  BY FS_Interval, RetentionAssumption DEF RetentionAssumption, R!Ids
<1>2. found \subseteq R!Ids
  BY DEF RetentionInv, R!Seen, R!Rows
<1>3. IsFiniteSet(found)
  BY <1>1, <1>2, FS_Subset
<1>4. averages' = {R!Averaged(R!Group(i)) : i \in found}
  BY DEF R!SelectAverages
<1> HIDE DEF found
<1>5. IsFiniteSet(averages')
  <2> DEFINE f == [i \in found |-> R!Averaged(R!Group(i))]
  <2>1. f \in Surjection(found, averages')
    BY <1>4 DEF Surjection
  <2> QED BY <1>3, <2>1, FS_Surjection
<1> QED
  BY <1>5 DEF RetentionInv, R!SelectAverages, R!Rows

(* The WHERE clause of DELETE spares what has evidence at that moment.     *)
LEMMA DeleteKeeps == ASSUME RetentionInv, R!DeleteMatching PROVE RetentionInv'
<1> DEFINE gone == {i \in R!Seen : R!Matches(i)}
<1>1. /\ deleted' = deleted \union (gone \intersect R!Rows)
      /\ inserted' = [i \in DOMAIN inserted \ gone |-> inserted[i]]
      /\ UNCHANGED <<readings, nextId, averages>>
  BY DEF R!DeleteMatching
<1>2. ASSUME NEW i \in gone, i \in R!Rows PROVE ~R!Evidence(readings[i])
  <2>1. i \notin DOMAIN inserted
    BY <1>2 DEF RetentionInv, R!Rows
  <2>2. R!Row(i) = readings[i]
    BY <2>1 DEF R!Row
  <2>3. R!Row(i).source \in {"auto", "archived"} /\ ~R!Row(i).note
    BY DEF R!Matches, R!Sources
  <2> QED BY <2>2, <2>3 DEF R!Evidence
<1> HIDE DEF gone
<1> QED BY <1>1, <1>2 DEF RetentionInv, R!Rows, R!Evidence

LEMMA InsertKeeps == ASSUME RetentionInv, R!InsertAverages PROVE RetentionInv'
<1> DEFINE ids == nextId..(nextId + Cardinality(averages) - 1)
<1>1. Cardinality(averages) \in Nat
  BY FS_CardinalityType DEF RetentionInv
<1>2. /\ ids \subseteq R!Ids
      /\ DOMAIN inserted' = DOMAIN inserted \union ids
      /\ nextId' = nextId + Cardinality(averages)
      /\ averages' = {} /\ UNCHANGED <<readings, deleted>>
  BY DEF R!InsertAverages, R!Cardinality, Cardinality
<1>3. nextId' \in Nat \ {0} /\ nextId <= nextId' /\ \A i \in ids : nextId <= i /\ i < nextId'
  BY <1>1, <1>2 DEF RetentionInv
<1>4. IsFiniteSet(averages')
  BY <1>2, FS_EmptySet
<1>5. \A i \in DOMAIN inserted' : i \in R!Ids /\ i < nextId' /\ readings'[i] = None
  <2> SUFFICES ASSUME NEW i \in DOMAIN inserted'
               PROVE  i \in R!Ids /\ i < nextId' /\ readings[i] = None
    BY <1>2
  <2> HIDE DEF ids
  <2>1. CASE i \in DOMAIN inserted
    BY SMTT(30), <1>3, <2>1 DEF RetentionInv, R!Ids
  <2>2. CASE i \in ids
    BY <1>2, <1>3, <2>2 DEF RetentionInv
  <2> QED BY <1>2, <2>1, <2>2
<1> HIDE DEF ids
<1>6. \A i \in R!Ids : i >= nextId' => readings'[i] = None
  BY <1>2, <1>3 DEF RetentionInv, R!Ids
<1> QED BY <1>2, <1>3, <1>4, <1>5, <1>6 DEF RetentionInv, R!Rows, R!Evidence

LEMMA ResetKeeps == ASSUME RetentionInv, R!Commit \/ R!Fail PROVE RetentionInv'
<1>1. averages' = {} /\ deleted' = {} /\ inserted' = <<>> /\ nextId' = nextId
  BY DEF R!Commit, R!Fail, R!Reset
<1>2. IsFiniteSet(averages') /\ DOMAIN inserted' = {}
  BY <1>1, FS_EmptySet
<1>3. readings' = R!Final \/ readings' = readings
  BY DEF R!Commit, R!Fail
<1>4. /\ R!Final = [i \in R!Ids |-> R!Final[i]]
      /\ \A i \in R!Ids : i >= nextId => R!Final[i] = None
  <2>1. R!Final = [i \in R!Ids |-> R!Final[i]]
    BY DEF R!Final
  <2>2. ASSUME NEW i \in R!Ids, i >= nextId PROVE R!Final[i] = None
    <3>1. readings[i] = None
      BY <2>2 DEF RetentionInv
    <3>2. i \in Int /\ nextId \in Nat
      BY DEF RetentionInv, R!Ids
    <3>3. i \in DOMAIN inserted => i < nextId
      BY DEF RetentionInv
    <3>4. i \notin DOMAIN inserted
      BY <2>2, <3>2, <3>3
    <3> QED BY <3>1, <3>4 DEF R!Final
  <2> QED BY <2>1, <2>2
<1>5. readings' = [i \in R!Ids |-> readings'[i]]
  BY <1>3, <1>4 DEF RetentionInv
<1>6. \A i \in R!Ids : i >= nextId' => readings'[i] = None
  BY <1>1, <1>3, <1>4 DEF RetentionInv
<1> QED BY <1>1, <1>2, <1>5, <1>6 DEF RetentionInv

(* Requests leave the rows alone that the job has locked. *)
LEMMA RequestKeeps ==
    ASSUME RetentionInv,
           \/ \E i \in R!Ids : R!UpdateReading(i) \/ R!DeleteReading(i)
           \/ \E at \in ReadingTimes, v \in ReadingValues : R!CreateReading(at, v)
    PROVE  RetentionInv'
<1>1. UNCHANGED <<averages, deleted, inserted>>
  BY DEF R!UpdateReading, R!DeleteReading, R!CreateReading, R!Request, R!JobUnchanged
<1>2. PICK i \in R!Ids :
        /\ i \notin deleted
        /\ \E row : readings' = [readings EXCEPT ![i] = row]
        /\ \/ i \in R!Rows /\ nextId' = nextId
           \/ i = nextId /\ nextId' = nextId + 1
  <2>1. CASE \E i \in R!Ids : R!UpdateReading(i)
    BY <2>1 DEF R!UpdateReading
  <2>2. CASE \E i \in R!Ids : R!DeleteReading(i)
    BY <2>2 DEF R!DeleteReading
  <2>3. CASE \E at \in ReadingTimes, v \in ReadingValues : R!CreateReading(at, v)
    <3>1. nextId \in R!Ids
      BY <2>3 DEF R!CreateReading
    <3>2. readings[nextId] = None
      BY <3>1 DEF RetentionInv
    <3>3. nextId \notin deleted
      BY <3>2 DEF RetentionInv, R!Rows
    <3> QED BY <2>3, <3>1, <3>3 DEF R!CreateReading
  <2> QED BY <2>1, <2>2, <2>3
<1>3. \A k \in R!Ids : k # i => readings'[k] = readings[k]
  BY <1>2 DEF RetentionInv
<1>4. readings' = [k \in R!Ids |-> readings'[k]]
  BY <1>2 DEF RetentionInv
<1>6. nextId' \in Nat \ {0} /\ nextId <= nextId' /\ i < nextId'
  BY <1>2 DEF RetentionInv, R!Rows, R!Ids
<1>7. \A k \in R!Ids : k >= nextId' => readings'[k] = None
  BY <1>3, <1>6 DEF RetentionInv, R!Ids
<1>8. \A k \in deleted : k \in R!Rows' /\ ~R!Evidence(readings'[k])
  BY <1>2, <1>3 DEF RetentionInv, R!Rows
<1>9. i \notin DOMAIN inserted
  <2>1. i \in R!Ids /\ (i \in R!Rows \/ i = nextId)
    BY <1>2
  <2>2. CASE i = nextId
    <3>1. nextId \in Nat /\ \A k \in DOMAIN inserted : k \in Nat /\ k < nextId
      BY DEF RetentionInv, R!Ids
    <3> QED BY <2>2, <3>1
  <2>3. CASE i \in R!Rows
    <3>1. readings[i] # None  BY <2>3 DEF R!Rows
    <3> QED BY <3>1 DEF RetentionInv
  <2> QED BY <2>1, <2>2, <2>3
<1>10. \A k \in DOMAIN inserted : k \in R!Ids /\ k < nextId' /\ readings'[k] = None
  <2> SUFFICES ASSUME NEW k \in DOMAIN inserted
               PROVE  k \in R!Ids /\ k < nextId' /\ readings'[k] = None
    OBVIOUS
  <2>1. k \in R!Ids /\ k < nextId /\ readings[k] = None
    BY DEF RetentionInv
  <2>2. k < nextId'
    BY <1>6, <2>1 DEF RetentionInv, R!Ids
  <2> QED BY <1>3, <1>9, <2>1, <2>2
<1> QED BY <1>1, <1>4, <1>6, <1>7, <1>8, <1>10 DEF RetentionInv

LEMMA RetentionNext == RetentionInv /\ [R!Next]_(R!vars) => RetentionInv'
<1> SUFFICES ASSUME RetentionInv, [R!Next]_(R!vars) PROVE RetentionInv'
  OBVIOUS
<1>1. CASE R!Begin
  BY <1>1 DEF RetentionInv, R!Begin, R!Rows
<1>2. CASE UNCHANGED R!vars
  BY <1>2 DEF RetentionInv, R!vars, R!Rows
<1> QED
  BY <1>1, <1>2, SelectKeeps, DeleteKeeps, InsertKeeps, ResetKeeps, RequestKeeps DEF R!Next

(* Whatever requests commit between its statements, the night's job leaves *)
(* a reading with evidence as it is, for any readings, any tiers and any   *)
(* number of requests.                                                     *)
THEOREM JobSparesEvidence == AllSpec => EvidenceSurvives
<1> DEFINE Spared == R!Commit => \A i \in R!Rows : R!Evidence(readings[i]) => readings'[i] = readings[i]
<1>1. AllInit => RetentionInv  BY Alone, RetentionInit
<1>2. RetentionInv /\ [AllNext]_all => RetentionInv'  BY Alone, RetentionNext
<1>3. RetentionInv => Spared
  <2> SUFFICES ASSUME RetentionInv, R!Commit, NEW i \in R!Rows, R!Evidence(readings[i])
               PROVE  readings'[i] = readings[i]
    OBVIOUS
  <2>1. i \in R!Ids /\ i \notin deleted /\ i \notin DOMAIN inserted
    BY DEF RetentionInv, R!Rows
  <2> QED BY <2>1 DEF R!Commit, R!Final
<1>4. RetentionInv /\ [AllNext]_all => [Spared]_(R!vars)
  BY <1>3
<1> HIDE DEF Spared
<1>5. AllSpec => [][Spared]_(R!vars)
  BY <1>1, <1>2, <1>4, PTL DEF AllSpec
<1> QED BY <1>5 DEF EvidenceSurvives, R!EvidenceSurvives, Spared

(* Tiers and buckets are stretches of time. *)
LEMMA Cutoffs ==
    ASSUME night \in Int
    PROVE  R!Cutoff2y \in Int /\ R!Cutoff90d \in Int /\ R!Cutoff2y <= R!Cutoff90d
<1> DEFINE days == night * Day
<1>1. days \in Int
  BY RetentionAssumption DEF RetentionAssumption
<1>2. R!Cutoff2y = Old + days /\ R!Cutoff90d = Aging + days
  BY DEF R!Cutoff2y, R!Cutoff90d
<1> HIDE DEF days
<1> QED BY <1>1, <1>2, RetentionAssumption DEF RetentionAssumption

LEMMA TiersRise ==
    ASSUME night \in Int, NEW at \in Int, NEW later \in Int, at <= later
    PROVE  /\ R!TierOf(at) \in 1..3 /\ R!TierOf(at) <= R!TierOf(later)
           /\ R!BucketStart(at, Buckets[R!TierOf(at)]) \in Int
           /\ R!TierOf(at) = R!TierOf(later)
              => R!BucketStart(at, Buckets[R!TierOf(at)]) <= R!BucketStart(later, Buckets[R!TierOf(at)])
<1>1. R!TierOf(at) \in 1..3 /\ R!TierOf(at) <= R!TierOf(later)
  BY Cutoffs DEF R!TierOf
<1> DEFINE b == Buckets[R!TierOf(at)]
<1>2. b \in Nat \ {0} /\ Hour \in Nat \ {0} /\ Minute \in Nat \ {0}
  BY <1>1, RetentionAssumption DEF RetentionAssumption
<1> HIDE DEF b
<1>3. R!MinuteOf(at) \in Int /\ R!MinuteOf(later) \in Int /\ R!MinuteOf(at) <= R!MinuteOf(later)
  BY <1>2, DivRises DEF R!MinuteOf
<1>4. R!BucketStart(at, b) \in Int /\ R!BucketStart(at, b) <= R!BucketStart(later, b)
  BY <1>2, <1>3, CutRises DEF R!BucketStart
<1> QED BY <1>1, <1>4 DEF b

LEMMA InTierIs ==
    ASSUME night \in Int, tier \in 1..3, NEW at \in Int
    PROVE  R!InTier(at) <=> R!TierOf(at) = tier
<1>1. CASE tier = 1  BY <1>1, Cutoffs DEF R!InTier, R!TierOf
<1>2. CASE tier = 2  BY <1>2, Cutoffs DEF R!InTier, R!TierOf
<1>3. CASE tier = 3  BY <1>3, Cutoffs DEF R!InTier, R!TierOf
<1> QED BY <1>1, <1>2, <1>3

LEMMA BucketsEquivalent ==
    /\ \A r : R!SameBucket(r, r)
    /\ \A r, s : R!SameBucket(r, s) => R!SameBucket(s, r)
    /\ \A r, s, t : R!SameBucket(r, s) /\ R!SameBucket(s, t) => R!SameBucket(r, t)
BY DEF R!SameBucket

LEMMA BucketsApart ==
    ASSUME night \in Int, NEW r \in RetainedRow, NEW s \in RetainedRow,
           r.at < s.at, r.meter = s.meter, ~R!SameBucket(r, s),
           NEW p \in RetainedRow, NEW q \in RetainedRow, R!SameBucket(p, r), R!SameBucket(q, s)
    PROVE  p.at < q.at
<1>1. r.at \in Int /\ s.at \in Int /\ p.at \in Int /\ q.at \in Int
  BY DEF RetainedRow
<1>2. SUFFICES ASSUME q.at <= p.at PROVE FALSE
  BY <1>1
<1> DEFINE Start(x) == R!BucketStart(x.at, Buckets[R!TierOf(x.at)])
<1>3. /\ R!TierOf(p.at) = R!TierOf(r.at) /\ R!TierOf(q.at) = R!TierOf(s.at)
      /\ Start(p) = Start(r) /\ Start(q) = Start(s)
      /\ ~(R!TierOf(r.at) = R!TierOf(s.at) /\ Start(r) = Start(s))
  BY DEF R!SameBucket
<1>4. /\ R!TierOf(r.at) \in 1..3 /\ R!TierOf(s.at) \in 1..3
      /\ R!TierOf(r.at) <= R!TierOf(s.at) /\ R!TierOf(q.at) <= R!TierOf(p.at)
      /\ R!TierOf(r.at) = R!TierOf(s.at) => Start(r) <= Start(s)
      /\ R!TierOf(q.at) = R!TierOf(p.at) => Start(q) <= Start(p)
      /\ Start(r) \in Int /\ Start(s) \in Int
  <2>1. r.at <= s.at  BY <1>1
  <2>2. R!TierOf(r.at) <= R!TierOf(s.at) /\ (R!TierOf(r.at) = R!TierOf(s.at) => Start(r) <= Start(s))
        /\ R!TierOf(r.at) \in 1..3 /\ Start(r) \in Int
    BY <1>1, <2>1, TiersRise
  <2>3. R!TierOf(q.at) <= R!TierOf(p.at) /\ (R!TierOf(q.at) = R!TierOf(p.at) => Start(q) <= Start(p))
    BY <1>1, <1>2, TiersRise
  <2>4. R!TierOf(s.at) \in 1..3 /\ Start(s) \in Int
    <3>1. s.at <= s.at  BY <1>1
    <3> QED BY <1>1, <3>1, TiersRise
  <2> QED BY <2>2, <2>3, <2>4
<1> HIDE DEF Start
<1> QED BY <1>3, <1>4

(* Averages *)
Worth(group) == [i \in group |-> R!Row(i).value]

SumOf(group) == R!MapThenSumSet(LAMBDA i : R!Row(i).value, group)

LEMMA WorthSum ==
    ASSUME NEW group, IsFiniteSet(group), Worth(group) \in [group -> Int]
    PROVE  \E sum : SumsUp(sum, Worth(group), group) /\ SumOf(group) = sum[group]
<1> DEFINE f == Worth(group)
           Eqn(g) == g = [s \in SUBSET group |->
                            IF s = {} THEN 0
                            ELSE R!Row(CHOOSE r \in s : TRUE).value + g[s \ {CHOOSE r \in s : TRUE}]]
<1>1. \A g : Folded(g, f, group) <=> Eqn(g)
  <2> SUFFICES ASSUME NEW g PROVE Folded(g, f, group) <=> Eqn(g)
    OBVIOUS
  <2>1. ASSUME NEW s \in SUBSET group
        PROVE  Folding(g, f, s) = IF s = {} THEN 0
                                  ELSE R!Row(CHOOSE r \in s : TRUE).value + g[s \ {CHOOSE r \in s : TRUE}]
    <3>1. s # {} => Chosen(s) \in group /\ f[Chosen(s)] = R!Row(Chosen(s)).value
      BY ChosenIn DEF Worth
    <3> QED BY <3>1 DEF Folding, Chosen
  <2> QED BY <2>1 DEF Folded
<1>2. PICK h : Eqn(h)
  <2>1. \E g : Folded(g, f, group)
    <3> HIDE DEF Eqn, f
    <3> QED BY FoldExists DEF f
  <2> HIDE DEF Eqn
  <2> QED BY <1>1, <2>1
<1> DEFINE sum == CHOOSE g : Eqn(g)
<1>3. SumOf(group) = sum[group]
  BY DEF SumOf, R!MapThenSumSet, R!MapThenFoldSet
<1> HIDE DEF Eqn, f
<1>4. Eqn(sum)  BY <1>2
<1> HIDE DEF sum
<1>5. SumsUp(sum, f, group)  BY <1>1, <1>4, FoldSums DEF f
<1> QED BY <1>3, <1>5 DEF f

(* The row a group gives way to: at the time of one of them, with a value  *)
(* between theirs.                                                         *)
LEMMA SameSize == \A s : R!Cardinality(s) = Cardinality(s)
BY DEF R!Cardinality, Cardinality

LEMMA AveragedIs ==
    ASSUME NEW group, IsFiniteSet(group), group # {}, NEW m,
           \A i \in group : R!Row(i) \in RetainedRow /\ R!Row(i).meter = m
    PROVE  LET a == R!Averaged(group)
           IN  /\ a \in RetainedRow /\ a.meter = m /\ a.source = "archived" /\ ~a.note
               /\ \E j \in group : a.at = R!Row(j).at /\ \A i \in group : a.at <= R!Row(i).at
               /\ \A h \in Int : /\ (\A i \in group : R!Row(i).value <= h) => a.value <= h
                                 /\ (\A i \in group : h <= R!Row(i).value) => h <= a.value
<1> DEFINE n == Cardinality(group)
           total == SumOf(group)
           f == Worth(group)
           t == [i \in group |-> R!Row(i).at]
           a == R!Averaged(group)
<1>1. n \in Nat \ {0}
  BY FS_CardinalityType, FS_EmptySet
<1>2. f \in [group -> Int] /\ t \in [group -> Int]
  BY DEF Worth, RetainedRow
<1>3. PICK sum : SumsUp(sum, f, group) /\ total = sum[group]
  <2> HIDE DEF total, t
  <2> QED BY <1>2, WorthSum DEF total
<1>4. total \in Int
  BY <1>3 DEF SumsUp
<1>5. \A h \in Int : /\ (\A i \in group : R!Row(i).value <= h) => total <= n * h
                     /\ (\A i \in group : h <= R!Row(i).value) => n * h <= total
  <2>1. \A i \in group : f[i] = R!Row(i).value
    BY DEF Worth
  <2> HIDE DEF f, n, total
  <2> QED BY <1>2, <1>3, <2>1, SumBounded DEF n
<1>6. PICK j \in group : \A i \in group : t[j] <= t[i]
  <2> HIDE DEF t
  <2> QED BY <1>2, SomethingIsLargest
<1>7. R!Min({R!Row(i).at : i \in group}) = R!Row(j).at
  <2> DEFINE times == {R!Row(i).at : i \in group}
             least == R!Row(j).at
  <2>1. least \in times /\ times \subseteq Int /\ \A x \in times : least <= x
    BY <1>2, <1>6
  <2> HIDE DEF times, least
  <2>2. \A x \in times : (\A y \in times : x <= y) => x = least
    <3> SUFFICES ASSUME NEW x \in times, \A y \in times : x <= y PROVE x = least
      OBVIOUS
    <3>1. x <= least /\ least <= x /\ x \in Int /\ least \in Int
      BY <2>1
    <3> QED BY <3>1
  <2> QED BY <2>1, <2>2 DEF R!Min, times, least
<1> DEFINE v == (2 * total + n) \div (2 * n)
<1>8. a = [meter |-> R!Row(CHOOSE i \in group : TRUE).meter, at |-> R!Row(j).at, value |-> v,
           source |-> "archived", note |-> FALSE]
  BY <1>7, SameSize DEF R!Averaged, SumOf
<1>9. R!Row(CHOOSE i \in group : TRUE).meter = m
  OBVIOUS
<1>10. v \in Int /\ \A h \in Int : (total <= n * h => v <= h) /\ (n * h <= total => h <= v)
  <2> HIDE DEF total, n
  <2> QED BY <1>1, <1>4, RoundedBetween
<1> HIDE DEF v, total, n
<1>11. a.meter = m /\ a.at = R!Row(j).at /\ a.value = v /\ a.source = "archived" /\ ~a.note
  BY <1>8, <1>9
<1>12. R!Row(j) \in RetainedRow /\ R!Row(j).meter = m
  OBVIOUS
<1>13. a \in RetainedRow
  BY <1>8, <1>9, <1>10, <1>12 DEF RetainedRow
<1>14. \A i \in group : a.at <= R!Row(i).at
  BY <1>6, <1>11
<1> HIDE DEF a
<1> QED BY <1>5, <1>10, <1>11, <1>13, <1>14 DEF a

(* What the job has in hand is what may be stored. *)
JobTyped ==
    /\ night \in Nat /\ tier \in 0..4 /\ step \in {"select", "delete", "insert"}
    /\ tier \in {0, 4} => step = "select"
    /\ tier = 0 => deleted = {} /\ inserted = <<>>
    /\ \A i \in R!Rows : readings[i] \in RetainedRow
    /\ \A i \in DOMAIN inserted : inserted[i] \in RetainedRow
    /\ \A a \in averages : a \in RetainedRow /\ a.source = "archived" /\ ~a.note

Ordered(r, s) == r.meter = s.meter /\ r.at < s.at => r.value <= s.value

(* An average stands for the rows of its bucket. *)
Within(i, a) == R!Matches(i) /\ R!SameBucket(R!Row(i), a)

StandsFor(a) ==
    /\ \E i \in R!Seen : Within(i, a)
    /\ \A h \in Int : /\ (\A i \in R!Seen : Within(i, a) => R!Row(i).value <= h) => a.value <= h
                      /\ (\A i \in R!Seen : Within(i, a) => h <= R!Row(i).value) => h <= a.value

Standing ==
    /\ step = "delete" => /\ \A i \in R!Seen : R!Matches(i) => \E a \in averages : R!SameBucket(R!Row(i), a)
                          /\ \A a \in averages : StandsFor(a)
    /\ step = "insert" => \A i \in R!Seen : ~R!Matches(i)
    /\ step # "select" => \A a, b \in averages : /\ R!TierOf(a.at) = tier
                                                 /\ R!SameBucket(a, b) => a = b

(* The bucket of what was deleted has a row, or is about to have one. *)
Covered ==
    \A i \in deleted : \/ \E j \in R!Seen : R!SameBucket(readings[i], R!Row(j))
                       \/ step = "insert" /\ \E a \in averages : R!SameBucket(readings[i], a)

(* The tiers that are done have one row without evidence in a bucket. *)
Settled(r) == ~R!Evidence(r) /\ R!TierOf(r.at) < tier /\ R!TierOf(r.at) # 3

Single ==
    \A i, j \in R!Seen :
        Settled(R!Row(i)) /\ Settled(R!Row(j)) /\ R!SameBucket(R!Row(i), R!Row(j)) => i = j

Premise == R!Rises(readings, R!Rows) /\ R!Unmixed /\ \A i \in R!Rows : ~R!Evidence(readings[i])

Rising ==
    Premise =>
        /\ \A i \in R!Seen : ~R!Evidence(R!Row(i))
        /\ \A i, j \in R!Seen : Ordered(R!Row(i), R!Row(j))
        /\ tier # 4 => \A i, j \in R!Seen :
                          R!Row(i).source = "archived" /\ R!Row(j).source = "auto"
                            /\ R!TierOf(R!Row(i).at) = 3
                          => ~R!SameBucket(R!Row(i), R!Row(j))
        /\ step = "insert" =>
              /\ \A a \in averages, i \in R!Seen : Ordered(a, R!Row(i)) /\ Ordered(R!Row(i), a)
              /\ \A a, b \in averages : Ordered(a, b)

InHand == Standing /\ Covered /\ Single /\ Rising

JobInv == RetentionInv /\ JobTyped /\ (touched = {} /\ tier # 0 => InHand)

LEMMA SeenTyped ==
    ASSUME RetentionInv, JobTyped
    PROVE  /\ R!Seen \subseteq R!Ids /\ IsFiniteSet(R!Seen)
           /\ \A i \in R!Seen : R!Row(i) \in RetainedRow /\ i \in Nat /\ i < nextId
<1>1. R!Seen \subseteq R!Ids
  BY DEF RetentionInv, R!Seen, R!Rows
<1>2. IsFiniteSet(R!Ids)
  BY FS_Interval, RetentionAssumption DEF RetentionAssumption, R!Ids
<1>3. ASSUME NEW i \in R!Seen PROVE R!Row(i) \in RetainedRow /\ i \in Nat /\ i < nextId
  <2>1. CASE i \in DOMAIN inserted
    BY SMTT(30), <1>1, <2>1 DEF R!Row, JobTyped, RetentionInv, R!Ids
  <2>2. CASE i \notin DOMAIN inserted
    <3>1. i \in R!Rows  BY <2>2 DEF R!Seen
    <3>2. R!Row(i) = readings[i]  BY <2>2 DEF R!Row
    <3>3. i \in 1..MaxId /\ readings[i] # None /\ nextId \in Nat /\ ~(i >= nextId)
      BY <3>1 DEF R!Rows, RetentionInv, R!Ids
    <3> QED BY <3>1, <3>2, <3>3 DEF JobTyped
  <2> QED BY <2>1, <2>2
<1> QED BY <1>1, <1>2, <1>3, FS_Subset

(* What tells rows apart does not change during a night. *)
LEMMA SameNight ==
    ASSUME night' = night
    PROVE  /\ \A at : R!TierOf(at)' = R!TierOf(at)
           /\ \A r, s : R!SameBucket(r, s)' <=> R!SameBucket(r, s)
           /\ readings' = readings => R!Rows' = R!Rows /\ (Premise' <=> Premise)
<1>1. \A at : R!TierOf(at)' = R!TierOf(at)
  BY DEF R!TierOf, R!Cutoff2y, R!Cutoff90d
<1>2. \A r, s : R!SameBucket(r, s)' <=> R!SameBucket(r, s)
  BY <1>1 DEF R!SameBucket
<1>3. ASSUME readings' = readings PROVE R!Rows' = R!Rows /\ (Premise' <=> Premise)
  <2>1. R!Rows' = R!Rows  BY <1>3 DEF R!Rows
  <2>2. R!Unmixed' <=> R!Unmixed  BY <1>1, <1>2, <1>3, <2>1 DEF R!Unmixed
  <2>3. R!Rises(readings, R!Rows)' <=> R!Rises(readings, R!Rows)  BY <1>3, <2>1 DEF R!Rises
  <2> QED BY <1>3, <2>1, <2>2, <2>3 DEF Premise, R!Evidence
<1> QED BY <1>1, <1>2, <1>3

LEMMA SameView ==
    ASSUME UNCHANGED <<readings, deleted, inserted>>
    PROVE  R!Seen' = R!Seen /\ \A i : R!Row(i)' = R!Row(i)
BY DEF R!Seen, R!Row, R!Rows

(* The rows that give way together are those that match in one bucket. *)
LEMMA GroupIs ==
    ASSUME RetentionInv, JobTyped, tier \in 1..3, NEW i \in R!Seen, R!Matches(i)
    PROVE  R!Group(i) = {j \in R!Seen : R!Matches(j) /\ R!SameBucket(R!Row(j), R!Row(i))}
<1>1. ASSUME NEW j \in R!Seen, R!Matches(j) PROVE R!TierOf(R!Row(j).at) = tier
  <2>1. R!Row(j).at \in Int  BY SeenTyped DEF RetainedRow
  <2>2. R!InTier(R!Row(j).at)  BY <1>1 DEF R!Matches
  <2>3. night \in Int  BY DEF JobTyped
  <2> QED BY <2>1, <2>2, <2>3, InTierIs
<1>2. R!TierOf(R!Row(i).at) = tier  BY <1>1
<1> QED BY <1>1, <1>2 DEF R!Group, R!SameBucket

LEMMA AverageStands ==
    ASSUME RetentionInv, JobTyped, tier \in 1..3, NEW i \in R!Seen, R!Matches(i)
    PROVE  LET a == R!Averaged(R!Group(i))
           IN  /\ a \in RetainedRow /\ a.source = "archived" /\ ~a.note
               /\ R!TierOf(a.at) = tier /\ R!SameBucket(R!Row(i), a) /\ StandsFor(a)
<1> DEFINE group == R!Group(i)
           a == R!Averaged(group)
           m == R!Row(i).meter
<1>1. group = {j \in R!Seen : R!Matches(j) /\ R!SameBucket(R!Row(j), R!Row(i))}
  BY GroupIs
<1>2. i \in group  BY <1>1, BucketsEquivalent
<1>3. IsFiniteSet(group)  BY <1>1, SeenTyped, FS_Subset
<1>4. \A j \in group : R!Row(j) \in RetainedRow /\ R!Row(j).meter = m
  BY <1>1, SeenTyped DEF R!SameBucket
<1> HIDE DEF group, m
<1>5. /\ a \in RetainedRow /\ a.meter = m /\ a.source = "archived" /\ ~a.note
      /\ \E j \in group : a.at = R!Row(j).at
      /\ \A h \in Int : /\ (\A k \in group : R!Row(k).value <= h) => a.value <= h
                        /\ (\A k \in group : h <= R!Row(k).value) => h <= a.value
  <2>1. group # {}  BY <1>2
  <2> QED BY <1>3, <1>4, <2>1, AveragedIs
<1> HIDE DEF a
<1>6. PICK j \in group : a.at = R!Row(j).at  BY <1>5
<1>7. R!SameBucket(a, R!Row(j))
  BY <1>4, <1>5, <1>6 DEF R!SameBucket
<1>8. R!SameBucket(R!Row(i), a) /\ \A k \in R!Seen : Within(k, a) <=> k \in group
  BY <1>1, <1>6, <1>7, BucketsEquivalent DEF Within
<1>9. R!TierOf(a.at) = tier
  <2>1. R!Row(j).at \in Int  BY <1>4, <1>6 DEF RetainedRow
  <2>2. R!InTier(R!Row(j).at)  BY <1>1, <1>6 DEF R!Matches
  <2>3. night \in Int  BY DEF JobTyped
  <2> QED BY <1>6, <2>1, <2>2, <2>3, InTierIs
<1>10. StandsFor(a)
  <2>1. group \subseteq R!Seen  BY <1>1
  <2> QED BY <1>2, <1>5, <1>8, <2>1 DEF StandsFor
<1> QED BY <1>5, <1>8, <1>9, <1>10 DEF a, group

LEMMA JobBegins == ASSUME RetentionInv, JobTyped, R!Begin PROVE JobTyped' /\ InHand'
<1>1. /\ tier = 0 /\ tier' = 1 /\ night' = night + 1
      /\ UNCHANGED <<readings, nextId, step, averages, deleted, inserted>>
  BY DEF R!Begin
<1>2. deleted = {} /\ inserted = <<>> /\ step = "select" /\ night \in Nat
  BY <1>1 DEF JobTyped
<1>3. R!Rows' = R!Rows  BY <1>1 DEF R!Rows
<1>4. JobTyped'
  BY <1>1, <1>2, <1>3 DEF JobTyped
<1>5. R!Seen' = R!Rows' /\ \A i \in R!Seen' : R!Row(i)' = readings'[i]
  BY <1>1, <1>2 DEF R!Seen, R!Row
<1>6. Standing' /\ Covered'  BY <1>1, <1>2 DEF Standing, Covered
<1>7. Single'
  <2>1. \A at : ~(R!TierOf(at)' < 1)  BY DEF R!TierOf
  <2> QED BY <1>1, <2>1 DEF Single, Settled
<1>8. Rising'
  BY <1>1, <1>2, <1>5 DEF Rising, Premise, R!Rises, R!Unmixed, Ordered
<1> QED BY <1>4, <1>6, <1>7, <1>8 DEF InHand

LEMMA SameMatches ==
    ASSUME UNCHANGED <<readings, deleted, inserted, night, tier>>
    PROVE  /\ \A i : R!Matches(i)' <=> R!Matches(i)
           /\ \A a : StandsFor(a)' <=> StandsFor(a)
           /\ Single' <=> Single
<1>1. \A i : R!Matches(i)' <=> R!Matches(i)
  <2>1. R!Sources' = R!Sources
    BY DEF R!Sources
  <2>2. \A at : R!InTier(at)' <=> R!InTier(at)
    BY DEF R!InTier, R!Cutoff2y, R!Cutoff90d
  <2> QED BY <2>1, <2>2, SameView DEF R!Matches
<1>2. \A i, a : Within(i, a)' <=> Within(i, a)
  BY <1>1, SameView, SameNight DEF Within
<1>3. \A a : StandsFor(a)' <=> StandsFor(a)
  BY <1>2, SameView DEF StandsFor
<1>4. \A i : Settled(R!Row(i))' <=> Settled(R!Row(i))
  BY SameView, SameNight DEF Settled, R!Evidence
<1>5. Single' <=> Single
  BY <1>4, SameView, SameNight DEF Single
<1> QED BY <1>1, <1>3, <1>5

LEMMA JobSelects ==
    ASSUME RetentionInv, JobTyped, R!SelectAverages
    PROVE  JobTyped' /\ (InHand => InHand')
<1> DEFINE Of(i) == R!Averaged(R!Group(i))
<1>1. /\ tier \in 1..3 /\ step = "select" /\ step' = "delete"
      /\ averages' = {Of(i) : i \in {j \in R!Seen : R!Matches(j)}}
      /\ UNCHANGED <<readings, nextId, night, tier, deleted, inserted>>
  BY DEF R!SelectAverages
<1>2. ASSUME NEW i \in R!Seen, R!Matches(i)
      PROVE  /\ Of(i) \in averages'
             /\ Of(i) \in RetainedRow /\ Of(i).source = "archived" /\ ~Of(i).note
             /\ R!TierOf(Of(i).at) = tier /\ R!SameBucket(R!Row(i), Of(i)) /\ StandsFor(Of(i))
  BY <1>1, <1>2, AverageStands
<1>3. \A a \in averages' : \E i \in R!Seen : R!Matches(i) /\ a = Of(i)
  BY <1>1
<1>4. ASSUME NEW i \in R!Seen, NEW j \in R!Seen, R!Matches(i), R!Matches(j), R!SameBucket(Of(i), Of(j))
      PROVE  Of(i) = Of(j)
  <2>1. R!SameBucket(R!Row(i), Of(i)) /\ R!SameBucket(R!Row(j), Of(j))
    BY <1>2, <1>4
  <2> HIDE DEF Of
  <2>2. R!SameBucket(R!Row(i), R!Row(j))
    BY <1>4, <2>1, BucketsEquivalent
  <2>3. R!Group(i) = R!Group(j)
    BY <1>1, <1>4, <2>2, GroupIs, BucketsEquivalent
  <2> QED BY <2>3 DEF Of
<1> HIDE DEF Of
<1>5. R!Rows' = R!Rows /\ R!Seen' = R!Seen /\ \A i : R!Row(i)' = R!Row(i)
  BY <1>1, SameView, SameNight
<1>6. JobTyped'
  BY <1>1, <1>2, <1>3, <1>5 DEF JobTyped
<1>7. ASSUME InHand PROVE InHand'
  <2>1. Standing'
    <3>1. \A i \in R!Seen' : R!Matches(i)' => \E a \in averages' : R!SameBucket(R!Row(i), a)'
      BY <1>1, <1>2, <1>5, SameMatches, SameNight
    <3>2. \A a \in averages' : StandsFor(a)'
      BY <1>1, <1>2, <1>3, SameMatches
    <3>3. \A a, b \in averages' : R!TierOf(a.at)' = tier' /\ (R!SameBucket(a, b)' => a = b)
      BY <1>1, <1>2, <1>3, <1>4, SameNight
    <3> QED BY <1>1, <3>1, <3>2, <3>3 DEF Standing
  <2>2. Covered'
    BY <1>1, <1>5, <1>7, SameNight DEF Covered, InHand
  <2>3. Single'
    BY <1>1, <1>7, SameMatches DEF InHand
  <2>4. Rising'
    BY <1>1, <1>5, <1>7, SameNight DEF Rising, InHand
  <2> QED BY <2>1, <2>2, <2>3, <2>4 DEF InHand
<1> QED BY <1>6, <1>7

(* Where counters rise, an average fits between the rows of other buckets, *)
(* and the averages of two buckets fit each other.                         *)
LEMMA AverageFits ==
    ASSUME RetentionInv, JobTyped, NEW a \in averages, StandsFor(a),
           NEW i \in R!Seen, ~R!SameBucket(a, R!Row(i)),
           \A j, k \in R!Seen : Ordered(R!Row(j), R!Row(k))
    PROVE  Ordered(a, R!Row(i)) /\ Ordered(R!Row(i), a)
<1> DEFINE r == R!Row(i)
<1>1. a \in RetainedRow /\ r \in RetainedRow /\ night \in Int
  BY SeenTyped DEF JobTyped
<1>2. \A k \in R!Seen : Within(k, a) => /\ R!Row(k) \in RetainedRow /\ R!Row(k).meter = a.meter
                                        /\ R!SameBucket(R!Row(k), a)
  BY SeenTyped DEF Within, R!SameBucket
<1>3. R!SameBucket(r, r) /\ ~R!SameBucket(r, a)
  BY BucketsEquivalent
<1>4. a.value \in Int /\ r.value \in Int
  BY <1>1 DEF RetainedRow
<1>5. ASSUME a.meter = r.meter, a.at < r.at PROVE a.value <= r.value
  <2>1. ASSUME NEW k \in R!Seen, Within(k, a) PROVE R!Row(k).value <= r.value
    <3>1. R!Row(k).at < r.at  BY <1>1, <1>2, <1>3, <1>5, <2>1, BucketsApart
    <3>2. R!Row(k).meter = r.meter  BY <1>2, <1>5, <2>1
    <3> QED BY <3>1, <3>2 DEF Ordered
  <2> QED BY <1>4, <2>1 DEF StandsFor
<1>6. ASSUME a.meter = r.meter, r.at < a.at PROVE r.value <= a.value
  <2>1. ASSUME NEW k \in R!Seen, Within(k, a) PROVE r.value <= R!Row(k).value
    <3>1. r.at < R!Row(k).at  BY <1>1, <1>2, <1>3, <1>6, <2>1, BucketsApart
    <3>2. R!Row(k).meter = r.meter  BY <1>2, <1>6, <2>1
    <3> QED BY <3>1, <3>2 DEF Ordered
  <2> QED BY <1>4, <2>1 DEF StandsFor
<1> QED BY <1>5, <1>6 DEF Ordered

LEMMA AveragesFit ==
    ASSUME RetentionInv, JobTyped, NEW a \in averages, NEW b \in averages, StandsFor(a), StandsFor(b),
           R!SameBucket(a, b) => a = b,
           \A j, k \in R!Seen : Ordered(R!Row(j), R!Row(k))
    PROVE  Ordered(a, b)
<1> SUFFICES ASSUME a.meter = b.meter, a.at < b.at PROVE a.value <= b.value
  BY DEF Ordered
<1>1. a \in RetainedRow /\ b \in RetainedRow /\ night \in Int
  BY DEF JobTyped
<1>2. a.at \in Int /\ a.value \in Int /\ b.value \in Int
  BY <1>1 DEF RetainedRow
<1>3. ~R!SameBucket(a, b)
  BY <1>2
<1>4. \A k \in R!Seen : Within(k, a) => /\ R!Row(k) \in RetainedRow /\ R!Row(k).meter = a.meter
                                        /\ R!SameBucket(R!Row(k), a)
  BY SeenTyped DEF Within, R!SameBucket
<1>5. \A k \in R!Seen : Within(k, b) => /\ R!Row(k) \in RetainedRow /\ R!Row(k).meter = b.meter
                                        /\ R!SameBucket(R!Row(k), b)
  BY SeenTyped DEF Within, R!SameBucket
<1>6. ASSUME NEW l \in R!Seen, Within(l, b) PROVE a.value <= R!Row(l).value
  <2>1. ASSUME NEW k \in R!Seen, Within(k, a) PROVE R!Row(k).value <= R!Row(l).value
    <3>1. R!Row(k).at < R!Row(l).at  BY <1>1, <1>3, <1>4, <1>5, <1>6, <2>1, BucketsApart
    <3>2. R!Row(k).meter = R!Row(l).meter  BY <1>4, <1>5, <1>6, <2>1
    <3> QED BY <3>1, <3>2 DEF Ordered
  <2>2. R!Row(l).value \in Int  BY <1>5, <1>6 DEF RetainedRow
  <2> QED BY <2>1, <2>2 DEF StandsFor
<1> QED BY <1>2, <1>6 DEF StandsFor

(* What DELETE leaves are the rows that do not match. *)
LEMMA WhatDeleteLeaves ==
    ASSUME RetentionInv, R!DeleteMatching
    PROVE  /\ R!Rows' = R!Rows
           /\ R!Seen' = {i \in R!Seen : ~R!Matches(i)}
           /\ \A i \in R!Seen' : R!Row(i)' = R!Row(i) /\ ~R!Matches(i)'
           /\ \A i \in deleted' : i \in deleted \/ (/\ i \in R!Seen /\ R!Matches(i)
                                                    /\ R!Row(i) = readings[i])
           /\ \A i \in DOMAIN inserted' : i \in DOMAIN inserted /\ inserted'[i] = inserted[i]
<1> DEFINE gone == {i \in R!Seen : R!Matches(i)}
<1>1. /\ deleted' = deleted \union (gone \intersect R!Rows)
      /\ inserted' = [i \in DOMAIN inserted \ gone |-> inserted[i]]
      /\ UNCHANGED <<readings, night, tier>>
  BY DEF R!DeleteMatching
<1>2. R!Rows' = R!Rows  BY <1>1 DEF R!Rows
<1>3. DOMAIN inserted' = DOMAIN inserted \ gone
  BY <1>1
<1>4. \A i \in R!Rows : i \notin DOMAIN inserted
  BY DEF RetentionInv, R!Rows
<1>5. \A i : i \in gone <=> i \in R!Seen /\ R!Matches(i)
  OBVIOUS
<1> HIDE DEF gone
<1>6. R!Seen' = {i \in R!Seen : ~R!Matches(i)}
  <2>1. \A i : i \in R!Seen <=> (i \in R!Rows /\ i \notin deleted) \/ i \in DOMAIN inserted
    BY DEF R!Seen
  <2>2. \A i : i \in R!Seen' <=> (i \in R!Rows /\ i \notin deleted') \/ i \in DOMAIN inserted'
    BY <1>2 DEF R!Seen
  <2>3. ASSUME NEW i PROVE i \in R!Seen' <=> i \in R!Seen /\ ~R!Matches(i)
    BY <1>1, <1>3, <1>4, <1>5, <2>1, <2>2
  <2> QED BY <2>3
<1>7. ASSUME NEW i \in R!Seen' PROVE R!Row(i)' = R!Row(i)
  <2>1. i \notin gone  BY <1>5, <1>6
  <2> QED BY <1>1, <1>3, <2>1 DEF R!Row
<1>8. ASSUME NEW i \in R!Seen' PROVE ~R!Matches(i)'
  <2>1. R!Sources' = R!Sources
    BY <1>1 DEF R!Sources
  <2>2. \A at : R!InTier(at)' <=> R!InTier(at)
    BY <1>1 DEF R!InTier, R!Cutoff2y, R!Cutoff90d
  <2>3. ~R!Matches(i)  BY <1>6
  <2> QED BY <1>7, <2>1, <2>2, <2>3 DEF R!Matches
<1>9. \A i \in R!Rows : R!Row(i) = readings[i]
  BY <1>4 DEF R!Row
<1> QED BY <1>1, <1>2, <1>3, <1>5, <1>6, <1>7, <1>8, <1>9

(* A row that is left in a bucket that was averaged is one a tier averages *)
(* no more, next to one it averages still. *)
LEMMA LeftInBucket ==
    ASSUME RetentionInv, JobTyped, tier \in 1..3,
           NEW a \in averages, StandsFor(a), R!TierOf(a.at) = tier,
           NEW i \in R!Seen, ~R!Matches(i), ~R!Evidence(R!Row(i)), R!SameBucket(a, R!Row(i))
    PROVE  \E k \in R!Seen : /\ R!Row(i).source = "archived" /\ R!Row(k).source = "auto"
                             /\ R!TierOf(R!Row(i).at) = 3 /\ R!SameBucket(R!Row(i), R!Row(k))
<1>1. R!Row(i) \in RetainedRow /\ R!Row(i).at \in Int /\ night \in Int
  BY SeenTyped DEF JobTyped, RetainedRow
<1>2. R!TierOf(R!Row(i).at) = tier
  BY DEF R!SameBucket
<1>3. R!InTier(R!Row(i).at)
  BY <1>1, <1>2, InTierIs
<1>4. R!Row(i).source \notin R!Sources /\ R!Row(i).source \in {"auto", "archived"}
  BY <1>1, <1>3 DEF R!Matches, R!Evidence, RetainedRow
<1>5. Buckets[tier] = 1 /\ R!Sources = {"auto"} /\ R!Row(i).source = "archived"
  BY <1>4 DEF R!Sources
<1>6. tier = 3
  BY <1>5, RetentionAssumption DEF RetentionAssumption
<1>7. PICK k \in R!Seen : Within(k, a)
  BY DEF StandsFor
<1>8. R!Row(k).source = "auto" /\ R!SameBucket(R!Row(i), R!Row(k))
  BY <1>5, <1>7, BucketsEquivalent DEF Within, R!Matches
<1> QED BY <1>2, <1>5, <1>6, <1>8

LEMMA JobDeletes ==
    ASSUME RetentionInv, JobTyped, R!DeleteMatching
    PROVE  JobTyped' /\ (InHand => InHand')
<1>1. /\ tier \in 1..3 /\ step = "delete" /\ step' = "insert"
      /\ UNCHANGED <<readings, nextId, night, tier, averages>>
  BY DEF R!DeleteMatching
<1>2. /\ R!Rows' = R!Rows
      /\ \A i : i \in R!Seen' <=> i \in R!Seen /\ ~R!Matches(i)
      /\ \A i \in R!Seen' : R!Row(i)' = R!Row(i) /\ ~R!Matches(i)'
  BY WhatDeleteLeaves
<1>3. \A i \in deleted' : i \in deleted \/ (i \in R!Seen /\ R!Matches(i) /\ R!Row(i) = readings[i])
  BY WhatDeleteLeaves
<1>4. JobTyped'
  BY <1>1, <1>2, WhatDeleteLeaves DEF JobTyped
<1>5. ASSUME InHand PROVE InHand'
  <2>1. /\ \A i \in R!Seen : R!Matches(i) => \E a \in averages : R!SameBucket(R!Row(i), a)
        /\ \A a \in averages : StandsFor(a) /\ R!TierOf(a.at) = tier
        /\ \A a, b \in averages : R!SameBucket(a, b) => a = b
    BY <1>1, <1>5 DEF InHand, Standing
  <2>2. Standing'
    BY <1>1, <1>2, <2>1, SameNight DEF Standing
  <2>3. Covered'
    <3> SUFFICES ASSUME NEW i \in deleted'
                 PROVE  \/ \E j \in R!Seen' : R!SameBucket(readings[i], R!Row(j))
                        \/ \E a \in averages : R!SameBucket(readings[i], a)
      BY <1>1, <1>2, SameNight DEF Covered
    <3>1. CASE i \in deleted
      <4>1. PICK j \in R!Seen : R!SameBucket(readings[i], R!Row(j))
        BY <1>1, <1>5, <3>1 DEF Covered, InHand
      <4>2. CASE ~R!Matches(j)  BY <1>2, <4>1, <4>2
      <4>3. CASE R!Matches(j)
        <5>1. PICK a \in averages : R!SameBucket(R!Row(j), a)  BY <2>1, <4>3
        <5> QED BY <4>1, <5>1, BucketsEquivalent
      <4> QED BY <4>2, <4>3
    <3>2. CASE i \notin deleted
      BY <1>3, <2>1, <3>2
    <3> QED BY <3>1, <3>2
  <2>4. Single'
    BY <1>1, <1>2, <1>5, SameNight DEF Single, InHand, Settled, R!Evidence
  <2>5. Rising'
    <3> SUFFICES ASSUME Premise PROVE Rising'
      BY <1>1, SameNight DEF Rising
    <3>1. /\ \A i \in R!Seen : ~R!Evidence(R!Row(i))
          /\ \A i, j \in R!Seen : Ordered(R!Row(i), R!Row(j))
          /\ \A i, j \in R!Seen : R!Row(i).source = "archived" /\ R!Row(j).source = "auto"
                                    /\ R!TierOf(R!Row(i).at) = 3
                                  => ~R!SameBucket(R!Row(i), R!Row(j))
      BY <1>1, <1>5 DEF Rising, InHand
    <3>2. ASSUME NEW a \in averages, NEW i \in R!Seen, ~R!Matches(i)
          PROVE  Ordered(a, R!Row(i)) /\ Ordered(R!Row(i), a)
      <4>1. ~R!SameBucket(a, R!Row(i))
        BY <1>1, <2>1, <3>1, <3>2, LeftInBucket
      <4> QED BY <2>1, <3>1, <4>1, AverageFits
    <3>3. ASSUME NEW a \in averages, NEW b \in averages PROVE Ordered(a, b)
      BY <2>1, <3>1, AveragesFit
    <3>4. /\ \A i \in R!Seen' : ~R!Evidence(R!Row(i)')
          /\ \A i, j \in R!Seen' : Ordered(R!Row(i)', R!Row(j)')
          /\ \A i, j \in R!Seen' : R!Row(i)'.source = "archived" /\ R!Row(j)'.source = "auto"
                                    /\ R!TierOf(R!Row(i)'.at) = 3
                                  => ~R!SameBucket(R!Row(i)', R!Row(j)')
      BY <1>2, <3>1
    <3>5. \A a \in averages', i \in R!Seen' : Ordered(a, R!Row(i)') /\ Ordered(R!Row(i)', a)
      BY <1>1, <1>2, <3>2
    <3>6. \A a, b \in averages' : Ordered(a, b)
      BY <1>1, <3>3
    <3> QED BY <1>1, <3>4, <3>5, <3>6, SameNight DEF Rising, R!Evidence
  <2> QED BY <2>2, <2>3, <2>4, <2>5 DEF InHand
<1> QED BY <1>4, <1>5

(* The database numbers the averages one by one. *)
LEMMA NumberedIs ==
    ASSUME IsFiniteSet(averages), nextId \in Nat
    PROVE  LET ids == nextId..(nextId + R!Cardinality(averages) - 1)
           IN  /\ R!Numbered(ids) \in [ids -> averages]
               /\ \A a \in averages : \E i \in ids : R!Numbered(ids)[i] = a
               /\ \A i, j \in ids : R!Numbered(ids)[i] = R!Numbered(ids)[j] => i = j
<1> DEFINE n == R!Cardinality(averages)
           ids == nextId..(nextId + n - 1)
           N(numbered) == numbered \in [ids -> averages] /\ {numbered[i] : i \in ids} = averages
           numbered == R!Numbered(ids)
<1>1. n \in Nat /\ n = Cardinality(averages)
  BY SameSize, FS_CardinalityType
<1>2. IsFiniteSet(ids) /\ Cardinality(ids) = n
  <2> HIDE DEF n
  <2>1. n \in Nat /\ nextId \in Int /\ nextId + n - 1 \in Int  BY <1>1
  <2>2. /\ IsFiniteSet(ids)
        /\ Cardinality(ids) = IF nextId > nextId + n - 1 THEN 0 ELSE (nextId + n - 1) - nextId + 1
    BY <2>1, FS_Interval
  <2> HIDE DEF ids
  <2> QED BY <2>1, <2>2
<1> HIDE DEF n, ids
<1>3. PICK f \in Surjection(ids, averages) : TRUE
  <2>1. ExistsBijection(ids, averages)
    BY <1>1, <1>2, FS_SameCardinalityBij
  <2> QED BY <2>1 DEF ExistsBijection, Bijection
<1>4. N(f)
  BY DEF Surjection
<1>5. N(numbered)
  BY <1>4 DEF R!Numbered
<1> HIDE DEF numbered
<1>6. numbered \in Surjection(ids, averages)
  BY <1>5 DEF Surjection
<1>7. numbered \in Injection(ids, averages)
  BY <1>1, <1>2, <1>6, FS_SurjSameCardinalityImpliesInj
<1>8. /\ numbered \in [ids -> averages]
      /\ \A a \in averages : \E i \in ids : numbered[i] = a
      /\ \A i, j \in ids : numbered[i] = numbered[j] => i = j
  BY <1>6, <1>7 DEF Surjection, Injection, IsInjective
<1> QED BY <1>8 DEF numbered, ids, n

(* What INSERT adds are the averages, each under an id of its own. *)
LEMMA WhatInsertAdds ==
    ASSUME RetentionInv, R!InsertAverages
    PROVE  LET ids   == nextId..(nextId + R!Cardinality(averages) - 1)
               numbered == R!Numbered(ids)
           IN  /\ R!Rows' = R!Rows
               /\ R!Seen' = R!Seen \union ids
               /\ \A i \in ids : i \in R!Ids /\ i >= nextId
               /\ \A i \in ids : R!Row(i)' = numbered[i] /\ numbered[i] \in averages
               /\ \A a \in averages : \E i \in ids : numbered[i] = a
               /\ \A i, j \in ids : numbered[i] = numbered[j] => i = j
               /\ \A i \in R!Seen : i \notin ids /\ R!Row(i)' = R!Row(i)
               /\ DOMAIN inserted' = DOMAIN inserted \union ids
               /\ \A i \in DOMAIN inserted' : inserted'[i] = IF i \in ids THEN numbered[i] ELSE inserted[i]
<1> DEFINE ids == nextId..(nextId + R!Cardinality(averages) - 1)
           numbered == R!Numbered(ids)
<1>1. /\ inserted' = [i \in DOMAIN inserted \union ids |-> IF i \in ids THEN numbered[i] ELSE inserted[i]]
      /\ ids \subseteq R!Ids
      /\ UNCHANGED <<readings, deleted>>
  BY DEF R!InsertAverages
<1>2. /\ numbered \in [ids -> averages]
      /\ \A a \in averages : \E i \in ids : numbered[i] = a
      /\ \A i, j \in ids : numbered[i] = numbered[j] => i = j
  <2>1. IsFiniteSet(averages) /\ nextId \in Nat  BY DEF RetentionInv
  <2> QED BY <2>1, NumberedIs
<1>3. nextId \in Nat /\ \A i \in ids : i \in Nat /\ i >= nextId
  BY <1>1 DEF RetentionInv
<1> HIDE DEF numbered, ids
<1>4. R!Rows' = R!Rows  BY <1>1 DEF R!Rows
<1>5. DOMAIN inserted' = DOMAIN inserted \union ids
  BY <1>1
<1>6. R!Seen' = R!Seen \union ids
  BY <1>1, <1>4, <1>5 DEF R!Seen
<1>7. ASSUME NEW i \in R!Seen PROVE i \notin ids
  <2>1. i \in R!Ids /\ (i \in DOMAIN inserted \/ i \in R!Rows)
    BY DEF R!Seen, RetentionInv, R!Rows
  <2>2. i \in Nat  BY <2>1 DEF R!Ids
  <2>3. ~(i >= nextId)
    <3>1. CASE i \in DOMAIN inserted  BY <1>3, <2>2, <3>1 DEF RetentionInv
    <3>2. CASE i \in R!Rows  BY <2>1, <3>2 DEF RetentionInv, R!Rows
    <3> QED BY <2>1, <3>1, <3>2
  <2> QED BY <1>3, <2>3
<1>8. \A i \in R!Seen : R!Row(i)' = R!Row(i)
  BY <1>1, <1>5, <1>7 DEF R!Row
<1>9. \A i \in ids : R!Row(i)' = numbered[i] /\ numbered[i] \in averages
  BY <1>1, <1>2, <1>5 DEF R!Row
<1>10. \A i \in DOMAIN inserted' : inserted'[i] = IF i \in ids THEN numbered[i] ELSE inserted[i]
  BY <1>1, <1>5
<1>11. \A i \in ids : i \in R!Ids /\ i >= nextId
  BY <1>1, <1>3
<1> QED BY <1>2, <1>4, <1>5, <1>6, <1>7, <1>8, <1>9, <1>10, <1>11 DEF numbered, ids

LEMMA JobInserts ==
    ASSUME RetentionInv, JobTyped, R!InsertAverages
    PROVE  JobTyped' /\ (InHand => InHand')
<1>1. /\ tier \in 1..3 /\ step = "insert" /\ step' = "select" /\ tier' = tier + 1 /\ averages' = {}
      /\ UNCHANGED <<readings, night, deleted>>
  BY DEF R!InsertAverages
<1>2. PICK ids, numbered :
         /\ R!Rows' = R!Rows
         /\ R!Seen' = R!Seen \union ids
         /\ \A i \in ids : R!Row(i)' = numbered[i] /\ numbered[i] \in averages
         /\ \A a \in averages : \E i \in ids : numbered[i] = a
         /\ \A i, j \in ids : numbered[i] = numbered[j] => i = j
         /\ \A i \in R!Seen : i \notin ids /\ R!Row(i)' = R!Row(i)
         /\ DOMAIN inserted' = DOMAIN inserted \union ids
         /\ \A i \in DOMAIN inserted' : inserted'[i] = IF i \in ids THEN numbered[i] ELSE inserted[i]
  BY ZenonT(40), WhatInsertAdds
<1>3. JobTyped'
  <2>1. \A i \in DOMAIN inserted' : inserted'[i] \in RetainedRow
    BY <1>2 DEF JobTyped
  <2> QED BY <1>1, <1>2, <2>1 DEF JobTyped
<1>4. ASSUME InHand PROVE InHand'
  <2>1. \A a, b \in averages : R!TierOf(a.at) = tier /\ (R!SameBucket(a, b) => a = b)
    BY <1>1, <1>4 DEF InHand, Standing
  <2>2. Standing'
    BY <1>1 DEF Standing
  <2>3. Covered'
    BY <1>1, <1>2, <1>4, SameNight DEF InHand, Covered
  <2>4. ASSUME NEW i \in R!Seen, ~R!Evidence(R!Row(i)), tier # 3 PROVE R!TierOf(R!Row(i).at) # tier
    <3> SUFFICES ASSUME R!TierOf(R!Row(i).at) = tier PROVE FALSE
      OBVIOUS
    <3>1. R!Row(i) \in RetainedRow /\ R!Row(i).at \in Int /\ night \in Int
      BY SeenTyped DEF JobTyped, RetainedRow
    <3>2. R!InTier(R!Row(i).at)  BY <1>1, <3>1, InTierIs
    <3>3. R!Row(i).source \in {"auto", "archived"} /\ ~R!Row(i).note
      BY <2>4, <3>1 DEF R!Evidence, RetainedRow
    <3>4. R!Sources = {"auto", "archived"}
      BY <1>1, <2>4, RetentionAssumption DEF R!Sources, RetentionAssumption
    <3>5. R!Matches(i)  BY <3>2, <3>3, <3>4 DEF R!Matches
    <3> QED BY <1>1, <1>4, <3>5 DEF InHand, Standing
  <2>5. Single'
    <3> DEFINE Done(r) == ~R!Evidence(r) /\ R!TierOf(r.at) < tier + 1 /\ R!TierOf(r.at) # 3
    <3> SUFFICES ASSUME NEW i \in R!Seen', NEW j \in R!Seen',
                        Done(R!Row(i)'), Done(R!Row(j)'), R!SameBucket(R!Row(i)', R!Row(j)')
                 PROVE  i = j
      BY <1>1, SameNight DEF Single, Settled, R!Evidence
    <3>1. R!TierOf(R!Row(i)'.at) = R!TierOf(R!Row(j)'.at)
      BY DEF R!SameBucket
    <3>2. CASE i \in R!Seen /\ j \in R!Seen
      <4>1. R!TierOf(R!Row(i).at) \in 1..3  BY DEF R!TierOf
      <4>2. R!Row(i)' = R!Row(i) /\ R!Row(j)' = R!Row(j)  BY <1>2, <3>2
      <4>3. R!TierOf(R!Row(i).at) # tier
        BY <2>4, <3>2, <4>2
      <4>4. R!TierOf(R!Row(i).at) < tier
        BY <1>1, <4>1, <4>2, <4>3
      <4>5. Settled(R!Row(i)) /\ Settled(R!Row(j))
        BY <3>1, <4>2, <4>4 DEF Settled
      <4> QED BY <1>4, <3>2, <4>2, <4>5 DEF InHand, Single
    <3>3. CASE i \in ids /\ j \in ids
      <4>1. R!SameBucket(numbered[i], numbered[j]) /\ numbered[i] \in averages /\ numbered[j] \in averages
        BY <1>2, <3>3
      <4> QED BY <1>2, <2>1, <3>3, <4>1
    <3>4. ASSUME NEW k \in R!Seen, NEW l \in ids, Done(R!Row(k)'),
                 R!TierOf(R!Row(k)'.at) = R!TierOf(R!Row(l)'.at)
          PROVE  FALSE
      <4>1. R!Row(k)' = R!Row(k) /\ R!TierOf(R!Row(l)'.at) = tier
        BY <1>2, <2>1
      <4> QED BY <2>4, <3>4, <4>1
    <3> QED BY <1>2, <3>1, <3>2, <3>3, <3>4
  <2>6. Rising'
    <3> SUFFICES ASSUME Premise PROVE Rising'
      BY <1>1, SameNight DEF Rising
    <3>1. /\ \A i \in R!Seen : ~R!Evidence(R!Row(i))
          /\ \A i, j \in R!Seen : Ordered(R!Row(i), R!Row(j))
          /\ \A i, j \in R!Seen : R!Row(i).source = "archived" /\ R!Row(j).source = "auto"
                                    /\ R!TierOf(R!Row(i).at) = 3
                                  => ~R!SameBucket(R!Row(i), R!Row(j))
          /\ \A a \in averages, i \in R!Seen : Ordered(a, R!Row(i)) /\ Ordered(R!Row(i), a)
          /\ \A a, b \in averages : Ordered(a, b)
      BY <1>1, <1>4 DEF Rising, InHand
    <3>2. \A a \in averages : a.source = "archived" /\ ~a.note
      BY DEF JobTyped
    <3>3. \A i \in R!Seen' : ~R!Evidence(R!Row(i)')
      BY <1>2, <3>1, <3>2 DEF R!Evidence
    <3>4. \A i, j \in R!Seen' : Ordered(R!Row(i)', R!Row(j)')
      BY <1>2, <3>1
    <3>5. tier' # 4 => \A i, j \in R!Seen' : R!Row(i)'.source = "archived" /\ R!Row(j)'.source = "auto"
                                    /\ R!TierOf(R!Row(i)'.at) = 3
                                  => ~R!SameBucket(R!Row(i)', R!Row(j)')
      <4> SUFFICES ASSUME tier # 3, NEW i \in R!Seen', NEW j \in R!Seen',
                          R!Row(i)'.source = "archived", R!Row(j)'.source = "auto",
                          R!TierOf(R!Row(i)'.at) = 3
                   PROVE  ~R!SameBucket(R!Row(i)', R!Row(j)')
        BY <1>1
      <4>1. i \in R!Seen  BY <1>2, <2>1
      <4>2. j \in R!Seen  BY <1>2, <3>2
      <4> QED BY <1>2, <3>1, <4>1, <4>2
    <3> QED BY <1>1, <3>3, <3>4, <3>5, SameNight DEF Rising, R!Evidence
  <2> QED BY <2>2, <2>3, <2>5, <2>6 DEF InHand
<1> QED BY <1>3, <1>4

LEMMA JobEnds == ASSUME RetentionInv, JobTyped, R!Commit \/ R!Fail PROVE JobTyped' /\ tier' = 0
<1>1. /\ tier' = 0 /\ step' = "select" /\ averages' = {} /\ deleted' = {} /\ inserted' = <<>>
      /\ night' = night /\ (readings' = R!Final \/ readings' = readings)
  BY DEF R!Commit, R!Fail, R!Reset
<1>2. \A i \in R!Rows' : readings'[i] \in RetainedRow
  <2>1. CASE readings' = readings  BY <2>1 DEF R!Rows, JobTyped
  <2>2. CASE readings' = R!Final
    <3> SUFFICES ASSUME NEW i \in R!Ids, R!Final[i] # None PROVE R!Final[i] \in RetainedRow
      BY <2>2 DEF R!Rows
    <3> QED BY DEF R!Final, JobTyped, R!Rows
  <2> QED BY <1>1, <2>1, <2>2
<1> QED BY <1>1, <1>2 DEF JobTyped

(* Requests that change or delete a row are out of what is promised. *)
LEMMA RowsWritten ==
    ASSUME RetentionInv, JobTyped, NEW i \in R!Ids, R!UpdateReading(i) \/ R!DeleteReading(i)
    PROVE  JobTyped' /\ touched' # {}
<1>1. UNCHANGED <<night, tier, step, averages, deleted, inserted>> /\ touched' # {}
  BY DEF R!UpdateReading, R!DeleteReading, R!Request, R!JobUnchanged
<1>2. i \in R!Rows /\ readings[i] \in RetainedRow
  BY DEF R!UpdateReading, R!DeleteReading, JobTyped
<1>3. \A k \in R!Rows' : readings'[k] \in RetainedRow
  <2>1. CASE R!DeleteReading(i)
    BY <2>1 DEF R!DeleteReading, R!Rows, JobTyped, RetentionInv
  <2>2. CASE R!UpdateReading(i)
    <3>1. PICK row \in [meter : {readings[i].meter}, at : ReadingTimes \union {readings[i].at},
                        value : {readings[i].value}, source : {readings[i].source}, note : BOOLEAN] :
            readings' = [readings EXCEPT ![i] = row]
      BY <2>2 DEF R!UpdateReading
    <3>2. row \in RetainedRow
      BY <1>2, RetentionAssumption DEF RetainedRow, RetentionAssumption
    <3> QED BY <3>1, <3>2 DEF R!Rows, JobTyped, RetentionInv
  <2> QED BY <2>1, <2>2
<1> QED BY <1>1, <1>3 DEF JobTyped

LEMMA RowCreated ==
    ASSUME RetentionInv, JobTyped, NEW at \in ReadingTimes, NEW v \in ReadingValues, R!CreateReading(at, v)
    PROVE  JobTyped' /\ (InHand => InHand')
<1> DEFINE row == [meter |-> 1, at |-> at, value |-> v, source |-> "manual", note |-> FALSE]
<1>0. PICK k : k = nextId
  OBVIOUS
<1>1. /\ UNCHANGED <<night, tier, step, averages, deleted, inserted>>
      /\ k \in R!Ids /\ readings' = [readings EXCEPT ![k] = row]
  BY <1>0 DEF R!CreateReading, R!Request, R!JobUnchanged
<1>2. k \in Nat /\ readings[k] = None /\ k \notin R!Rows /\ k \notin deleted
  BY <1>0, <1>1 DEF RetentionInv, R!Rows
<1>3. k \notin DOMAIN inserted
  <2>1. \A i \in DOMAIN inserted : i \in Nat /\ i < k
    BY <1>0 DEF RetentionInv, R!Ids
  <2> QED BY <1>2, <2>1
<1>4. row \in RetainedRow /\ R!Evidence(row) /\ row.source \notin R!Sources /\ row # None
  <2>1. row \in RetainedRow
    BY RetentionAssumption DEF RetentionAssumption, RetainedRow
  <2>2. row.source = "manual"
    OBVIOUS
  <2> HIDE DEF row
  <2> QED BY <2>1, <2>2, RetentionAssumption DEF R!Evidence, R!Sources, RetentionAssumption
<1> HIDE DEF row
<1>5. readings'[k] = row /\ \A i \in R!Ids : i # k => readings'[i] = readings[i]
  BY <1>1 DEF RetentionInv
<1>6. \A i : i \in R!Rows' <=> i \in R!Rows \/ i = k
  BY <1>1, <1>4, <1>5 DEF R!Rows
<1>7. /\ \A i : i \in R!Seen' <=> i \in R!Seen \/ i = k
      /\ k \notin R!Seen /\ R!Row(k)' = row
      /\ \A i \in R!Seen : R!Row(i)' = R!Row(i)
  <2>1. \A i : i \in R!Seen' <=> i \in R!Seen \/ i = k
    BY <1>1, <1>2, <1>6 DEF R!Seen
  <2>2. k \notin R!Seen  BY <1>2, <1>3 DEF R!Seen
  <2>3. R!Row(k)' = row  BY <1>1, <1>3, <1>5 DEF R!Row
  <2>4. \A i \in R!Seen : i \in DOMAIN inserted \/ (i \in R!Ids /\ i # k)
    BY <1>2 DEF R!Seen, R!Rows
  <2>5. \A i \in R!Seen : R!Row(i)' = R!Row(i)
    BY <1>1, <1>5, <2>4 DEF R!Row
  <2> QED BY <2>1, <2>2, <2>3, <2>5
<1>8. JobTyped'
  <2>1. \A i \in R!Rows' : readings'[i] \in RetainedRow
    BY <1>4, <1>5, <1>6 DEF JobTyped, R!Rows
  <2> QED BY <1>1, <2>1 DEF JobTyped
<1>9. ASSUME InHand PROVE InHand'
  <2>1. R!Sources' = R!Sources /\ \A t : R!InTier(t)' <=> R!InTier(t)
    <3>1. R!Sources' = R!Sources  BY <1>1 DEF R!Sources
    <3>2. \A t : R!InTier(t)' <=> R!InTier(t)
      BY <1>1 DEF R!InTier, R!Cutoff2y, R!Cutoff90d
    <3> QED BY <3>1, <3>2
  <2>2. (\A i \in R!Seen : R!Matches(i)' <=> R!Matches(i)) /\ ~R!Matches(k)'
    BY <1>4, <1>7, <2>1 DEF R!Matches
  <2>3. \A a : (\A i \in R!Seen : Within(i, a)' <=> Within(i, a)) /\ ~Within(k, a)'
    BY <1>1, <1>7, <2>2, SameNight DEF Within
  <2>4. ASSUME NEW a, StandsFor(a) PROVE StandsFor(a)'
    <3>1. \E i \in R!Seen' : Within(i, a)'
      BY <1>7, <2>3, <2>4 DEF StandsFor
    <3>2. ASSUME NEW h \in Int, \A i \in R!Seen' : Within(i, a)' => R!Row(i)'.value <= h
          PROVE  a.value <= h
      BY <1>7, <2>3, <2>4, <3>2 DEF StandsFor
    <3>3. ASSUME NEW h \in Int, \A i \in R!Seen' : Within(i, a)' => h <= R!Row(i)'.value
          PROVE  h <= a.value
      BY <1>7, <2>3, <2>4, <3>3 DEF StandsFor
    <3> QED BY <3>1, <3>2, <3>3 DEF StandsFor
  <2>5. Standing'
    BY <1>1, <1>7, <1>9, <2>2, <2>4, SameNight DEF InHand, Standing
  <2>6. Covered'
    <3>1. \A i \in deleted : readings'[i] = readings[i]
      BY <1>2, <1>5 DEF RetentionInv, R!Rows
    <3> QED BY <1>1, <1>7, <1>9, <3>1, SameNight DEF InHand, Covered
  <2>7. Single'
    <3>1. \A r : Settled(r)' <=> Settled(r)
      BY <1>1, SameNight DEF Settled, R!Evidence
    <3>2. ~Settled(row)  BY <1>4 DEF Settled
    <3> QED BY <1>1, <1>7, <1>9, <3>1, <3>2, SameNight DEF InHand, Single
  <2>8. Rising'
    <3>1. ~Premise'
      BY <1>4, <1>5, <1>6 DEF Premise, R!Evidence
    <3> QED BY <3>1 DEF Rising
  <2> QED BY <2>5, <2>6, <2>7, <2>8 DEF InHand
<1> QED BY <1>8, <1>9

LEMMA JobInit == R!Init => JobInv
<1> SUFFICES ASSUME R!Init PROVE JobInv
  OBVIOUS
<1>1. RetentionInv /\ tier = 0  BY RetentionInit DEF R!Init
<1>2. PICK table \in StoredReadings : readings = [i \in R!Ids |-> IF i \in DOMAIN table THEN table[i] ELSE None]
  BY DEF R!Init
<1>3. \A i \in R!Rows : readings[i] \in RetainedRow
  BY <1>2, RetentionAssumption DEF R!Rows, RetentionAssumption
<1>4. JobTyped
  BY <1>3 DEF R!Init, JobTyped
<1> QED BY <1>1, <1>4 DEF JobInv

LEMMA JobNext == JobInv /\ [R!Next]_(R!vars) => JobInv'
<1> SUFFICES ASSUME JobInv, [R!Next]_(R!vars) PROVE JobInv'
  OBVIOUS
<1>1. RetentionInv /\ JobTyped /\ (touched = {} /\ tier # 0 => InHand)
  BY DEF JobInv
<1>2. RetentionInv'  BY <1>1, RetentionNext
<1>3. CASE R!Begin  BY <1>1, <1>2, <1>3, JobBegins DEF JobInv
<1>4. CASE R!SelectAverages
  <2>1. tier # 0 /\ touched' = touched  BY <1>4 DEF R!SelectAverages
  <2> QED BY <1>1, <1>2, <1>4, <2>1, JobSelects DEF JobInv
<1>5. CASE R!DeleteMatching
  <2>1. tier # 0 /\ touched' = touched  BY <1>5 DEF R!DeleteMatching
  <2> QED BY <1>1, <1>2, <1>5, <2>1, JobDeletes DEF JobInv
<1>6. CASE R!InsertAverages
  <2>1. tier # 0 /\ touched' = touched  BY <1>6 DEF R!InsertAverages
  <2> QED BY <1>1, <1>2, <1>6, <2>1, JobInserts DEF JobInv
<1>7. CASE R!Commit \/ R!Fail
  BY <1>1, <1>2, <1>7, JobEnds DEF JobInv
<1>8. CASE \E i \in R!Ids : R!UpdateReading(i) \/ R!DeleteReading(i)
  BY <1>1, <1>2, <1>8, RowsWritten DEF JobInv
<1>9. CASE \E at \in ReadingTimes, v \in ReadingValues : R!CreateReading(at, v)
  <2>1. PICK at \in ReadingTimes, v \in ReadingValues : R!CreateReading(at, v)
    BY <1>9
  <2>2. touched' = touched /\ tier' = tier
    BY <2>1 DEF R!CreateReading, R!Request, R!JobUnchanged
  <2> QED BY <1>1, <1>2, <2>1, <2>2, RowCreated DEF JobInv
<1>10. CASE UNCHANGED R!vars
  <2>1. UNCHANGED <<readings, night, tier, step, averages, deleted, inserted, touched>>
    BY <1>10 DEF R!vars
  <2>2. JobTyped' <=> JobTyped
    BY <2>1, SameNight DEF JobTyped
  <2>3. Standing' <=> Standing
    BY <2>1, SameView, SameMatches, SameNight DEF Standing
  <2>4. Covered' <=> Covered
    BY <2>1, SameView, SameNight DEF Covered
  <2>5. Rising' <=> Rising
    BY <2>1, SameView, SameNight DEF Rising, R!Evidence
  <2> QED BY <1>1, <1>2, <2>1, <2>2, <2>3, <2>4, <2>5, SameMatches DEF JobInv, InHand
<1> QED BY <1>3, <1>4, <1>5, <1>6, <1>7, <1>8, <1>9, <1>10 DEF R!Next

(* What the transaction commits is what the job saw last. *)
LEMMA CommitLeaves ==
    ASSUME RetentionInv, JobTyped, R!Commit
    PROVE  /\ R!Left = R!Seen
           /\ \A i \in R!Seen : readings'[i] = R!Row(i)
<1>1. \A i \in deleted : i \in R!Rows /\ i \notin DOMAIN inserted
  BY DEF RetentionInv, R!Rows
<1>2. \A i \in R!Ids : /\ i \in deleted => readings'[i] = None
                       /\ i \in DOMAIN inserted => readings'[i] = inserted[i]
                       /\ i \notin deleted /\ i \notin DOMAIN inserted => readings'[i] = readings[i]
  BY <1>1 DEF R!Commit, R!Final
<1>3. \A i \in DOMAIN inserted : i \in R!Ids /\ inserted[i] # None /\ i \notin deleted
  BY <1>1, RetentionAssumption DEF RetentionInv, JobTyped, RetentionAssumption
<1>4. ASSUME NEW i \in R!Ids
      PROVE  /\ readings'[i] # None <=> i \in R!Seen
             /\ i \in R!Seen => readings'[i] = R!Row(i)
  <2>1. CASE i \in deleted  BY <1>2, <1>1, <2>1 DEF R!Seen
  <2>2. CASE i \in DOMAIN inserted  BY <1>2, <1>3, <2>2 DEF R!Seen, R!Row
  <2>3. CASE i \notin deleted /\ i \notin DOMAIN inserted
    BY <1>2, <2>3 DEF R!Seen, R!Row, R!Rows
  <2> QED BY <2>1, <2>2, <2>3
<1>5. R!Seen \subseteq R!Ids  BY SeenTyped
<1> QED BY <1>4, <1>5 DEF R!Left

(* For any readings and any bounds, a night whose rows no request changed  *)
(* or deleted meanwhile leaves a row in every bucket it emptied, at most   *)
(* one in a bucket of the older tiers, and counters that rose still rise,  *)
(* if all rows may be averaged and no bucket is mixed.                     *)
THEOREM DownsamplingCorrect == AllSpec => DownsamplingFaithful
<1> DEFINE Kept == R!Commit /\ touched = {} => R!Faithful
<1>1. AllInit => JobInv  BY Alone, JobInit
<1>2. JobInv /\ [AllNext]_all => JobInv'  BY Alone, JobNext
<1>3. JobInv => Kept
  <2> SUFFICES ASSUME JobInv, R!Commit, touched = {} PROVE R!Faithful
    OBVIOUS
  <2>1. tier = 4 /\ step = "select" /\ JobTyped /\ RetentionInv
    BY DEF R!Commit, JobInv, JobTyped
  <2>2. Covered /\ Single /\ Rising
    BY <2>1 DEF JobInv, InHand
  <2>3. R!Left = R!Seen /\ \A i \in R!Seen : readings'[i] = R!Row(i)
    BY <2>1, CommitLeaves
  <2>4. \A i \in deleted : \E j \in R!Left : R!SameBucket(readings[i], readings'[j])
    BY <2>1, <2>2, <2>3 DEF Covered
  <2>5. \A i, j \in {k \in R!Left : ~R!Evidence(readings'[k]) /\ R!TierOf(readings'[k].at) # 3} :
           R!SameBucket(readings'[i], readings'[j]) => i = j
    <3>1. \A r : R!TierOf(r.at) < 4  BY DEF R!TierOf
    <3> QED BY <2>1, <2>2, <2>3, <3>1 DEF Single, Settled
  <2>6. Premise => R!Rises(readings', R!Left)
    BY <2>2, <2>3 DEF Rising, Ordered, R!Rises
  <2> QED BY <2>4, <2>5, <2>6 DEF Premise, R!Faithful
<1>4. JobInv /\ [AllNext]_all => [Kept]_(R!vars)
  BY <1>3
<1> HIDE DEF Kept
<1>5. AllSpec => [][Kept]_(R!vars)
  BY <1>1, <1>2, <1>4, PTL DEF AllSpec
<1> QED BY <1>5 DEF DownsamplingFaithful, R!DownsamplingFaithful, Kept

----------------------------------------------------------------------------
(* Statistics *)

LEMMA LesserOfTwo ==
    \A a, b \in Int : /\ S!Min({a, b}) = IF a <= b THEN a ELSE b
                      /\ S!Max({a, b}) = IF a >= b THEN a ELSE b
<1> SUFFICES ASSUME NEW a \in Int, NEW b \in Int
             PROVE  /\ S!Min({a, b}) = IF a <= b THEN a ELSE b
                    /\ S!Max({a, b}) = IF a >= b THEN a ELSE b
  OBVIOUS
<1> DEFINE s == {a, b}
           lo == IF a <= b THEN a ELSE b
           hi == IF a >= b THEN a ELSE b
<1>1. lo \in s /\ \A y \in s : lo <= y  OBVIOUS
<1>2. hi \in s /\ \A y \in s : hi >= y  OBVIOUS
<1>3. \A x \in s : (\A y \in s : x <= y) => x = lo
  <2> SUFFICES ASSUME NEW x \in s, \A y \in s : x <= y PROVE x = lo
    OBVIOUS
  <2>1. x \in Int /\ x <= a /\ x <= b /\ (x = a \/ x = b)  OBVIOUS
  <2> QED BY <2>1
<1>4. \A x \in s : (\A y \in s : x >= y) => x = hi
  <2> SUFFICES ASSUME NEW x \in s, \A y \in s : x >= y PROVE x = hi
    OBVIOUS
  <2>1. x \in Int /\ x >= a /\ x >= b /\ (x = a \/ x = b)  OBVIOUS
  <2> QED BY <2>1
<1> HIDE DEF s, lo, hi
<1>5. S!Min(s) = lo  BY <1>1, <1>3 DEF S!Min
<1>6. S!Max(s) = hi  BY <1>2, <1>4 DEF S!Max
<1> QED BY <1>5, <1>6 DEF s, lo, hi

(* Readings in a window, and the intervals between neighbours that rise.   *)
Points(rs, m, since) == {i \in S!ReadingIds : rs[i] # None /\ rs[i].meter = m /\ rs[i].at >= since}

Ahead(rs, i, j) == rs[i].at < rs[j].at \/ (rs[i].at = rs[j].at /\ i < j)

Linked(rs, m, since, i, j) ==
    /\ i \in Points(rs, m, since) /\ j \in Points(rs, m, since)
    /\ rs[i].at < rs[j].at /\ rs[j].value > rs[i].value
    /\ \A k \in Points(rs, m, since) : ~(Ahead(rs, i, k) /\ Ahead(rs, k, j))

Stretch(rs, i, j) == [from |-> rs[i].at, to |-> rs[j].at, consumption |-> Scale * (rs[j].value - rs[i].value)]

LEMMA KnownIs ==
    /\ \A m, since, iv : iv \in S!Known(m, since) <=>
          \E i, j \in S!ReadingIds : Linked(counted, m, since, i, j) /\ iv = Stretch(counted, i, j)
    /\ \A m, since, iv : iv \in S!Known(m, since)' <=>
          \E i, j \in S!ReadingIds : Linked(counted', m, since, i, j) /\ iv = Stretch(counted', i, j)
<1>1. ASSUME NEW m, NEW since, NEW iv
      PROVE  iv \in S!Known(m, since) <=>
                \E i, j \in S!ReadingIds : Linked(counted, m, since, i, j) /\ iv = Stretch(counted, i, j)
  <2>1. S!Counting(m, since) = Points(counted, m, since)
    BY DEF S!Counting, S!Rows, Points
  <2>2. \A i, j : S!Sooner(i, j) <=> Ahead(counted, i, j)
    BY DEF S!Sooner, Ahead
  <2>3. \A i, j : S!Interval(i, j) = Stretch(counted, i, j)
    BY DEF S!Interval, Stretch
  <2> DEFINE points == Points(counted, m, since)
             Rise(i, j) == /\ counted[i].at < counted[j].at /\ ~\E k \in points : Ahead(counted, i, k) /\ Ahead(counted, k, j)
                           /\ counted[j].value > counted[i].value
  <2>4. points \subseteq S!ReadingIds
    BY DEF Points
  <2>5. S!Known(m, since) = {Stretch(counted, p[1], p[2]) : p \in {q \in points \X points : Rise(q[1], q[2])}}
    <3> HIDE DEF points
    <3> QED BY <2>1, <2>2, <2>3 DEF S!Known, points
  <2>6. \A i, j \in S!ReadingIds : Linked(counted, m, since, i, j) <=> i \in points /\ j \in points /\ Rise(i, j)
    BY DEF Linked
  <2> HIDE DEF points, Rise
  <2>7. ASSUME NEW i \in points, NEW j \in points, Rise(i, j) PROVE Stretch(counted, i, j) \in S!Known(m, since)
    <3>1. <<i, j>> \in {q \in points \X points : Rise(q[1], q[2])}  BY <2>7
    <3> QED BY <2>5, <3>1
  <2>8. ASSUME iv \in S!Known(m, since) PROVE \E i, j \in points : Rise(i, j) /\ iv = Stretch(counted, i, j)
    BY <2>5, <2>8
  <2> QED BY <2>4, <2>6, <2>7, <2>8
<1>2. ASSUME NEW m, NEW since, NEW iv
      PROVE  iv \in S!Known(m, since)' <=>
                \E i, j \in S!ReadingIds : Linked(counted', m, since, i, j) /\ iv = Stretch(counted', i, j)
  <2>1. S!Counting(m, since)' = Points(counted', m, since)
    BY DEF S!Counting, S!Rows, Points
  <2>2. \A i, j : S!Sooner(i, j)' <=> Ahead(counted', i, j)
    BY DEF S!Sooner, Ahead
  <2>3. \A i, j : S!Interval(i, j)' = Stretch(counted', i, j)
    BY DEF S!Interval, Stretch
  <2> DEFINE points == Points(counted', m, since)
             Rise(i, j) == /\ counted'[i].at < counted'[j].at /\ ~\E k \in points : Ahead(counted', i, k) /\ Ahead(counted', k, j)
                           /\ counted'[j].value > counted'[i].value
  <2>4. points \subseteq S!ReadingIds
    BY DEF Points
  <2>5. S!Known(m, since)' = {Stretch(counted', p[1], p[2]) : p \in {q \in points \X points : Rise(q[1], q[2])}}
    <3> HIDE DEF points
    <3> QED BY <2>1, <2>2, <2>3 DEF S!Known, points
  <2>6. \A i, j \in S!ReadingIds : Linked(counted', m, since, i, j) <=> i \in points /\ j \in points /\ Rise(i, j)
    BY DEF Linked
  <2> HIDE DEF points, Rise
  <2>7. ASSUME NEW i \in points, NEW j \in points, Rise(i, j) PROVE Stretch(counted', i, j) \in S!Known(m, since)'
    <3>1. <<i, j>> \in {q \in points \X points : Rise(q[1], q[2])}  BY <2>7
    <3> QED BY <2>5, <3>1
  <2>8. ASSUME iv \in S!Known(m, since)' PROVE \E i, j \in points : Rise(i, j) /\ iv = Stretch(counted', i, j)
    BY <2>5, <2>8
  <2> QED BY <2>4, <2>6, <2>7, <2>8
<1> QED BY <1>1, <1>2

Read(rs) == \A i \in S!ReadingIds : rs[i] # None => rs[i].at \in Int /\ rs[i].value \in Int

(* Intervals are stretches of time that share no instant. *)
LEMMA StretchesApart ==
    ASSUME NEW rs, Read(rs), NEW m, NEW since,
           NEW i \in S!ReadingIds, NEW j \in S!ReadingIds, Linked(rs, m, since, i, j),
           NEW k \in S!ReadingIds, NEW l \in S!ReadingIds, Linked(rs, m, since, k, l)
    PROVE  \/ Stretch(rs, i, j) = Stretch(rs, k, l)
           \/ rs[j].at <= rs[k].at
           \/ rs[l].at <= rs[i].at
<1>1. /\ rs[i].at \in Int /\ rs[j].at \in Int /\ rs[k].at \in Int /\ rs[l].at \in Int
      /\ i \in Int /\ j \in Int /\ k \in Int /\ l \in Int
      /\ rs[i].at < rs[j].at /\ rs[k].at < rs[l].at
  BY DEF Read, Linked, Points, S!ReadingIds
<1>2. /\ ~(Ahead(rs, i, k) /\ Ahead(rs, k, j)) /\ ~(Ahead(rs, i, l) /\ Ahead(rs, l, j))
      /\ ~(Ahead(rs, k, i) /\ Ahead(rs, i, l)) /\ ~(Ahead(rs, k, j) /\ Ahead(rs, j, l))
  BY DEF Linked
<1>3. \A a, b \in {i, j, k, l} : a = b \/ Ahead(rs, a, b) \/ Ahead(rs, b, a)
  BY <1>1 DEF Ahead
<1>4. CASE i = k
  <2>1. CASE j = l  BY <1>4, <2>1
  <2>2. CASE j # l  BY <1>1, <1>2, <1>4, <2>2 DEF Ahead
  <2> QED BY <2>1, <2>2
<1>5. CASE Ahead(rs, i, k)  BY <1>1, <1>2, <1>5 DEF Ahead
<1>6. CASE Ahead(rs, k, i)  BY <1>1, <1>2, <1>6 DEF Ahead
<1> QED BY <1>3, <1>4, <1>5, <1>6

(* Lengths of stretches that share no instant add up to no more than the   *)
(* stretch that holds them all.                                            *)
LEMMA Packed ==
    ASSUME NEW P, IsFiniteSet(P), NEW lo \in [P -> Int], NEW hi \in [P -> Int],
           \A x \in P : lo[x] < hi[x],
           \A x, y \in P : x = y \/ hi[x] <= lo[y] \/ hi[y] <= lo[x],
           NEW f \in [P -> Int], \A x \in P : f[x] = hi[x] - lo[x],
           NEW sum, SumsUp(sum, f, P),
           NEW a \in Int, NEW b \in Int, a <= b, \A x \in P : a <= lo[x] /\ hi[x] <= b
    PROVE  sum[P] <= b - a
<1> DEFINE D == {s \in SUBSET P : \A c \in Int : c <= b /\ (\A x \in s : c <= lo[x]) => sum[s] <= b - c}
<1>1. ASSUME NEW s \in SUBSET P, \A x \in s : s \ {x} \in D,
             NEW c \in Int, c <= b, \A x \in s : c <= lo[x]
      PROVE  sum[s] <= b - c
  <2>1. CASE s = {}  BY <1>1, <2>1 DEF SumsUp
  <2>2. CASE s # {}
    <3>1. PICK x \in s : \A y \in s : lo[x] <= lo[y]
      <4>1. IsFiniteSet(s)  BY FS_Subset
      <4> DEFINE g == [y \in s |-> lo[y]]
      <4>2. g \in [s -> Int] /\ \A y \in s : g[y] = lo[y]  OBVIOUS
      <4> HIDE DEF g
      <4>3. \E m \in s : \A y \in s : g[m] <= g[y]  BY <2>2, <4>1, <4>2, SomethingIsLargest
      <4> QED BY <4>2, <4>3
    <3>2. \A y \in s \ {x} : hi[x] <= lo[y]
      <4> SUFFICES ASSUME NEW y \in s \ {x} PROVE hi[x] <= lo[y]
        OBVIOUS
      <4>1. lo[x] <= lo[y] /\ lo[y] < hi[y] /\ lo[x] \in Int /\ lo[y] \in Int /\ hi[y] \in Int
        BY <3>1
      <4>2. hi[x] <= lo[y] \/ hi[y] <= lo[x]
        OBVIOUS
      <4> QED BY <4>1, <4>2
    <3>3. hi[x] \in Int /\ lo[x] \in Int /\ hi[x] <= b /\ c <= lo[x]
      BY <1>1
    <3>4. sum[s \ {x}] <= b - hi[x] /\ sum[s \ {x}] \in Int
      <4>1. s \ {x} \in D  BY <1>1
      <4> QED BY <3>2, <3>3, <4>1 DEF SumsUp
    <3>5. sum[s] = f[x] + sum[s \ {x}] /\ f[x] = hi[x] - lo[x]
      BY DEF SumsUp
    <3> QED BY <1>1, <3>3, <3>4, <3>5
  <2> QED BY <2>1, <2>2
<1>2. \A s \in SUBSET P : (\A x \in s : s \ {x} \in D) => s \in D
  BY <1>1
<1>3. P \in D
  <2> HIDE DEF D
  <2> QED BY <1>2, SubsetInduction
<1> QED BY <1>3

(* A month: what its total is made from, and the time it covers.           *)
Hits(ivs, k) == {iv \in ivs : S!Spans(iv, k) /\ S!Overlap(iv, MonthStart[k], MonthStart[k + 1]) > 0}

TotalOf(hits, k) ==
    [value   |-> S!MapThenSumSet(LAMBDA iv : S!Share(iv, MonthStart[k], MonthStart[k + 1]), hits),
     covered |-> S!MapThenSumSet(LAMBDA iv : S!Overlap(iv, MonthStart[k], MonthStart[k + 1]), hits),
     long    |-> S!MapThenSumSet(LAMBDA iv : S!Share(iv, MonthStart[k], MonthStart[k + 1]),
                                 {iv \in hits : iv.to - iv.from > EstimatedFrom})]

LEMMA MonthTotalIs == \A ivs, k : S!MonthTotal(ivs, k) = TotalOf(Hits(ivs, k), k)
BY DEF S!MonthTotal, TotalOf, Hits

CoveredOf(hits, k) == S!MapThenSumSet(LAMBDA iv : S!Overlap(iv, MonthStart[k], MonthStart[k + 1]), hits)

Overlaps(hits, k) == [iv \in hits |-> S!Overlap(iv, MonthStart[k], MonthStart[k + 1])]

LEMMA CoveredSum ==
    ASSUME NEW k, NEW hits, IsFiniteSet(hits), Overlaps(hits, k) \in [hits -> Int]
    PROVE  \E sum : SumsUp(sum, Overlaps(hits, k), hits) /\ CoveredOf(hits, k) = sum[hits]
<1> DEFINE f == Overlaps(hits, k)
           Eqn(g) == g = [s \in SUBSET hits |->
                            IF s = {} THEN 0
                            ELSE S!Overlap(CHOOSE r \in s : TRUE, MonthStart[k], MonthStart[k + 1])
                                   + g[s \ {CHOOSE r \in s : TRUE}]]
<1>1. \A g : Folded(g, f, hits) <=> Eqn(g)
  <2> SUFFICES ASSUME NEW g PROVE Folded(g, f, hits) <=> Eqn(g)
    OBVIOUS
  <2>1. ASSUME NEW s \in SUBSET hits
        PROVE  Folding(g, f, s) = IF s = {} THEN 0
                                  ELSE S!Overlap(CHOOSE r \in s : TRUE, MonthStart[k], MonthStart[k + 1])
                                         + g[s \ {CHOOSE r \in s : TRUE}]
    <3>1. s # {} => /\ Chosen(s) \in hits
                    /\ f[Chosen(s)] = S!Overlap(Chosen(s), MonthStart[k], MonthStart[k + 1])
      BY ChosenIn DEF Overlaps
    <3> QED BY <3>1 DEF Folding, Chosen
  <2> QED BY <2>1 DEF Folded
<1>2. PICK h : Eqn(h)
  <2>1. \E g : Folded(g, f, hits)
    <3> HIDE DEF Eqn, f
    <3> QED BY FoldExists DEF f
  <2> HIDE DEF Eqn
  <2> QED BY <1>1, <2>1
<1> DEFINE sum == CHOOSE g : Eqn(g)
<1>3. CoveredOf(hits, k) = sum[hits]
  BY DEF CoveredOf, S!MapThenSumSet, S!MapThenFoldSet
<1> HIDE DEF Eqn, f
<1>4. Eqn(sum)  BY <1>2
<1> HIDE DEF sum
<1>5. SumsUp(sum, f, hits)  BY <1>1, <1>4, FoldSums DEF f
<1> QED BY <1>3, <1>5 DEF f

(* The months that are shown are months of the calendar. *)
LEMMA Calendar ==
    /\ Len(MonthStart) \in Nat /\ DOMAIN MonthStart = 1..Len(MonthStart)
    /\ \A k \in 1..Len(MonthStart) : MonthStart[k] \in Int
    /\ \A k, l \in 1..Len(MonthStart) : k < l => MonthStart[k] < MonthStart[l]
BY SMTT(30), StatisticsAssumption DEF StatisticsAssumption

LEMMA MonthOfIs ==
    ASSUME NEW t \in FirstNow..LastNow
    PROVE  /\ S!MonthOf(t) \in Months..(Len(MonthStart) - 1)
           /\ MonthStart[S!MonthOf(t)] <= t /\ t < MonthStart[S!MonthOf(t) + 1]
<1> DEFINE n == Len(MonthStart)
           In(k) == MonthStart[k] <= t /\ (k + 1 \in DOMAIN MonthStart => t < MonthStart[k + 1])
           T == {i \in Nat : \E k \in 1..n : i = n - k /\ MonthStart[k] <= t}
           x == S!MonthOf(t)
<1>1. /\ n \in Nat /\ DOMAIN MonthStart = 1..n
      /\ \A k \in 1..n : MonthStart[k] \in Int
      /\ \A k, l \in 1..n : k < l => MonthStart[k] < MonthStart[l]
  BY Calendar
<1>2. /\ t \in Int /\ FirstNow <= t /\ t <= LastNow /\ FirstNow \in Int /\ LastNow \in Int
      /\ Months \in 1..n /\ MonthStart[Months] <= FirstNow /\ LastNow < MonthStart[n]
  BY StatisticsAssumption DEF StatisticsAssumption
<1> HIDE DEF n
<1>3. \E k \in DOMAIN MonthStart : In(k)
  <2>1. n - Months \in T
    BY <1>1, <1>2
  <2>2. PICK i \in T : \A j \in T : i <= j
    <3>1. T \subseteq Nat /\ T # {}  BY <2>1
    <3> HIDE DEF T
    <3> QED BY <3>1, LeastNumber
  <2>3. PICK k \in 1..n : i = n - k /\ MonthStart[k] <= t
    BY <2>2
  <2>4. ASSUME k + 1 \in 1..n PROVE t < MonthStart[k + 1]
    <3> SUFFICES ASSUME MonthStart[k + 1] <= t PROVE FALSE
      BY <1>1, <1>2, <2>4
    <3>1. n - (k + 1) \in T  BY <1>1, <2>4
    <3>2. ~(i <= n - (k + 1))  BY <1>1, <2>3
    <3> QED BY <2>2, <3>1, <3>2
  <2> QED BY <1>1, <2>3, <2>4
<1>4. x \in DOMAIN MonthStart /\ In(x)
  <2>1. x = CHOOSE k \in DOMAIN MonthStart : In(k)  BY DEF S!MonthOf
  <2> HIDE DEF In, x
  <2> QED BY <1>3, <2>1
<1> HIDE DEF x
<1>5. x \in 1..n /\ MonthStart[x] <= t /\ (x + 1 \in 1..n => t < MonthStart[x + 1])
  BY <1>1, <1>4
<1>6. x # n
  <2> SUFFICES ASSUME x = n PROVE FALSE
    OBVIOUS
  <2>1. MonthStart[n] \in Int  BY <1>1, <1>5
  <2> QED BY <1>2, <1>5, <2>1
<1>7. Months <= x
  <2> SUFFICES ASSUME x < Months PROVE FALSE
    BY <1>2, <1>5
  <2>1. x + 1 \in 1..n /\ x + 1 <= Months  BY <1>1, <1>2, <1>5
  <2>2. MonthStart[x + 1] \in Int /\ MonthStart[Months] \in Int /\ MonthStart[x + 1] <= MonthStart[Months]
    <3>1. x + 1 = Months \/ x + 1 < Months  BY <1>2, <1>5, <2>1
    <3> QED BY <1>1, <1>2, <2>1, <3>1
  <2> QED BY <1>2, <1>5, <2>1, <2>2
<1> QED BY <1>1, <1>2, <1>5, <1>6, <1>7 DEF x, n

(* Intervals as KnownIs describes them. *)
Disjoint(ivs) ==
    /\ IsFiniteSet(ivs)
    /\ \A iv \in ivs : iv.from \in Int /\ iv.to \in Int /\ iv.from < iv.to
    /\ \A iv, jv \in ivs : iv = jv \/ iv.to <= jv.from \/ jv.to <= iv.from

LEMMA KnownDisjoint ==
    ASSUME NEW rs, Read(rs), NEW m, NEW since, NEW ivs,
           \A iv : iv \in ivs <=> \E i, j \in S!ReadingIds : Linked(rs, m, since, i, j) /\ iv = Stretch(rs, i, j)
    PROVE  Disjoint(ivs)
<1>1. IsFiniteSet(ivs)
  <2> DEFINE pairs == {p \in S!ReadingIds \X S!ReadingIds : Linked(rs, m, since, p[1], p[2])}
             f == [p \in pairs |-> Stretch(rs, p[1], p[2])]
  <2>1. IsFiniteSet(pairs)
    <3>1. IsFiniteSet(S!ReadingIds)
      BY FS_Interval, StatisticsAssumption DEF StatisticsAssumption, S!ReadingIds
    <3>2. IsFiniteSet(S!ReadingIds \X S!ReadingIds)
      BY <3>1, FS_Product
    <3> QED BY <3>2, FS_Subset
  <2>2. \A p \in pairs : f[p] \in ivs
    OBVIOUS
  <2>3. \A iv \in ivs : \E p \in pairs : f[p] = iv
    <3> SUFFICES ASSUME NEW iv \in ivs PROVE \E p \in pairs : f[p] = iv
      OBVIOUS
    <3>1. PICK i \in S!ReadingIds, j \in S!ReadingIds : Linked(rs, m, since, i, j) /\ iv = Stretch(rs, i, j)
      OBVIOUS
    <3>2. <<i, j>> \in pairs  BY <3>1
    <3> QED BY <3>1, <3>2
  <2> HIDE DEF pairs
  <2>4. f \in Surjection(pairs, ivs)
    BY <2>2, <2>3 DEF Surjection
  <2> QED BY <2>1, <2>4, FS_Surjection
<1>2. \A iv \in ivs : iv.from \in Int /\ iv.to \in Int /\ iv.from < iv.to
  BY DEF Linked, Points, Stretch, Read
<1>3. ASSUME NEW iv \in ivs, NEW jv \in ivs PROVE iv = jv \/ iv.to <= jv.from \/ jv.to <= iv.from
  <2>1. PICK i \in S!ReadingIds, j \in S!ReadingIds : Linked(rs, m, since, i, j) /\ iv = Stretch(rs, i, j)
    OBVIOUS
  <2>2. PICK k \in S!ReadingIds, l \in S!ReadingIds : Linked(rs, m, since, k, l) /\ jv = Stretch(rs, k, l)
    OBVIOUS
  <2>3. /\ iv.from = rs[i].at /\ iv.to = rs[j].at /\ jv.from = rs[k].at /\ jv.to = rs[l].at
    BY <2>1, <2>2 DEF Stretch
  <2> QED BY <2>1, <2>2, <2>3, StretchesApart
<1> QED BY <1>1, <1>2, <1>3 DEF Disjoint

LEMMA OverlapIs ==
    ASSUME NEW iv, iv.from \in Int, iv.to \in Int, NEW from \in Int, NEW to \in Int
    PROVE  S!Overlap(iv, from, to) = (IF iv.to <= to THEN iv.to ELSE to) - (IF iv.from >= from THEN iv.from ELSE from)
BY LesserOfTwo DEF S!Overlap

(* Intervals that end by an instant cover no more of a month than there is *)
(* before it.                                                              *)
LEMMA CoveredUpTo ==
    ASSUME NEW ivs, Disjoint(ivs), NEW k \in 1..(Len(MonthStart) - 1),
           NEW t \in Int, MonthStart[k] <= t, \A iv \in ivs : iv.to <= t
    PROVE  S!MonthTotal(ivs, k).covered \in Int /\ S!MonthTotal(ivs, k).covered <= t - MonthStart[k]
<1> DEFINE hits == Hits(ivs, k)
           a == MonthStart[k]
           e == MonthStart[k + 1]
           lo == [iv \in hits |-> IF iv.from >= a THEN iv.from ELSE a]
           hi == [iv \in hits |-> IF iv.to <= e THEN iv.to ELSE e]
           f == Overlaps(hits, k)
<1>1. a \in Int /\ e \in Int /\ a < e /\ a <= t
  BY Calendar
<1>2. /\ hits \subseteq ivs /\ IsFiniteSet(hits)
      /\ \A iv \in hits : iv.from \in Int /\ iv.to \in Int /\ iv.from < iv.to /\ S!Overlap(iv, a, e) > 0
  BY FS_Subset DEF Hits, Disjoint
<1> HIDE DEF a, e
<1>3. \A iv \in hits : iv.to <= t /\ S!Overlap(iv, a, e) = hi[iv] - lo[iv] /\ lo[iv] \in Int /\ hi[iv] \in Int
  <2> HIDE DEF hits
  <2> QED BY <1>1, <1>2, OverlapIs
<1>4. \A iv \in hits : f[iv] = hi[iv] - lo[iv]
  BY <1>3 DEF Overlaps, a, e
<1>5. /\ lo \in [hits -> Int] /\ hi \in [hits -> Int] /\ f \in [hits -> Int]
      /\ \A iv \in hits : lo[iv] < hi[iv] /\ a <= lo[iv] /\ hi[iv] <= t
      /\ \A iv, jv \in hits : iv = jv \/ hi[iv] <= lo[jv] \/ hi[jv] <= lo[iv]
  <2>1. f \in [hits -> Int]
    BY <1>3, <1>4 DEF Overlaps
  <2>2. lo \in [hits -> Int] /\ hi \in [hits -> Int]
    BY <1>3
  <2>3. ASSUME NEW iv \in hits
        PROVE  /\ lo[iv] < hi[iv] /\ a <= lo[iv] /\ hi[iv] <= t
               /\ lo[iv] \in Int /\ hi[iv] \in Int /\ iv.from <= lo[iv] /\ hi[iv] <= iv.to
    <3>1. hi[iv] - lo[iv] > 0  BY <1>2, <1>3
    <3> QED BY <1>1, <1>2, <1>3, <3>1
  <2>4. ASSUME NEW iv \in hits, NEW jv \in hits PROVE iv = jv \/ hi[iv] <= lo[jv] \/ hi[jv] <= lo[iv]
    <3>1. iv = jv \/ iv.to <= jv.from \/ jv.to <= iv.from
      BY <1>2 DEF Disjoint
    <3>2. /\ iv.from \in Int /\ iv.to \in Int /\ jv.from \in Int /\ jv.to \in Int
          /\ lo[iv] \in Int /\ lo[jv] \in Int /\ hi[iv] \in Int /\ hi[jv] \in Int
          /\ iv.from <= lo[iv] /\ hi[iv] <= iv.to /\ jv.from <= lo[jv] /\ hi[jv] <= jv.to
      BY <1>2, <2>3
    <3> HIDE DEF lo, hi, hits
    <3>3. ASSUME NEW x, NEW y, x \in Int, y \in Int, iv.to \in Int, jv.from \in Int,
                 x <= iv.to, jv.from <= y, iv.to <= jv.from
          PROVE  x <= y
      BY <3>3
    <3>4. ASSUME NEW x, NEW y, x \in Int, y \in Int, jv.to \in Int, iv.from \in Int,
                 x <= jv.to, iv.from <= y, jv.to <= iv.from
          PROVE  x <= y
      BY <3>4
    <3> QED BY <3>1, <3>2, <3>3, <3>4
  <2> HIDE DEF lo, hi, f, hits
  <2> QED BY <2>1, <2>2, <2>3, <2>4
<1>6. PICK sum : SumsUp(sum, f, hits) /\ CoveredOf(hits, k) = sum[hits]
  <2> HIDE DEF hits
  <2> QED BY <1>2, <1>5, CoveredSum
<1> HIDE DEF lo, hi, f, hits
<1>7. sum[hits] <= t - a /\ sum[hits] \in Int
  <2>1. sum[hits] <= t - a  BY <1>1, <1>2, <1>4, <1>5, <1>6, Packed
  <2> QED BY <1>6, <2>1 DEF SumsUp
<1>8. S!MonthTotal(ivs, k).covered = sum[hits]
  BY <1>6, MonthTotalIs DEF TotalOf, CoveredOf, hits
<1> QED BY <1>7, <1>8 DEF a

(* The readings of a meter stay, and one that is new comes after them.     *)
Grown(old, new, m) ==
    /\ \A i \in S!ReadingIds : old[i] # None /\ old[i].meter = m => new[i] = old[i]
    /\ \A i \in S!ReadingIds : new[i] # None /\ new[i].meter = m /\ new[i] # old[i] =>
          \A j \in S!ReadingIds : old[j] # None /\ old[j].meter = m => old[j].at <= new[i].at /\ j < i
    /\ \E n : \A i \in S!ReadingIds : new[i] # None /\ new[i].meter = m /\ new[i] # old[i] => i = n

StretchesOf(rs, m, since, ivs) ==
    \A iv : iv \in ivs <=> \E i, j \in S!ReadingIds : Linked(rs, m, since, i, j) /\ iv = Stretch(rs, i, j)

LEMMA HitIs ==
    ASSUME NEW k \in 1..(Len(MonthStart) - 1), NEW ivs, Disjoint(ivs), NEW iv
    PROVE  iv \in Hits(ivs, k) <=> iv \in ivs /\ iv.from < MonthStart[k + 1] /\ MonthStart[k] < iv.to
<1> DEFINE a == MonthStart[k]
           e == MonthStart[k + 1]
<1>1. a \in Int /\ e \in Int /\ a < e  BY Calendar
<1> HIDE DEF a, e
<1>2. ASSUME iv \in ivs PROVE S!Overlap(iv, a, e) > 0 <=> iv.from < e /\ a < iv.to
  <2>1. iv.from \in Int /\ iv.to \in Int /\ iv.from < iv.to  BY <1>2 DEF Disjoint
  <2> QED BY <1>1, <2>1, OverlapIs
<1> QED BY <1>2 DEF Hits, S!Spans, a, e

(* What a month is measured from stays, if it is still loaded; one         *)
(* interval may be added, after all that are known.                        *)
LEMMA HitsGrow ==
    ASSUME NEW old, NEW new, NEW m, Read(old), Read(new), Grown(old, new, m),
           NEW w \in Int, NEW v \in Int, w <= v,
           NEW before, StretchesOf(old, m, w, before),
           NEW after, StretchesOf(new, m, v, after),
           NEW k \in 1..(Len(MonthStart) - 1),
           \A iv \in Hits(before, k) : iv.from >= v
    PROVE  /\ Hits(before, k) \subseteq Hits(after, k)
           /\ \A nu \in Hits(after, k) \ Hits(before, k) : \A iv \in before : iv.to <= nu.from
           /\ \A nu, mu \in Hits(after, k) \ Hits(before, k) : nu = mu
<1> DEFINE a == MonthStart[k]
           e == MonthStart[k + 1]
           Newest(n) == \A x \in S!ReadingIds : old[x] # None /\ old[x].meter = m => old[x].at <= new[n].at /\ x < n
<1>1. a \in Int /\ e \in Int /\ a < e  BY Calendar
<1>2. Disjoint(before) /\ Disjoint(after)
  BY KnownDisjoint DEF StretchesOf
<1> HIDE DEF a, e
<1>3. /\ \A iv : iv \in Hits(before, k) <=> iv \in before /\ iv.from < e /\ a < iv.to
      /\ \A iv : iv \in Hits(after, k) <=> iv \in after /\ iv.from < e /\ a < iv.to
  BY <1>2, HitIs DEF a, e
<1>4. \A i \in S!ReadingIds : /\ i \in Int
                              /\ old[i] # None => old[i].at \in Int /\ old[i].value \in Int
                              /\ new[i] # None => new[i].at \in Int /\ new[i].value \in Int
  BY DEF Read, S!ReadingIds
<1>5. \A i \in Points(old, m, v) : i \in Points(new, m, v) /\ new[i] = old[i] /\ i \in Points(old, m, w)
  BY <1>4 DEF Points, Grown
<1>6. \A i \in Points(new, m, v) :
         \/ i \in Points(old, m, v) /\ new[i] = old[i]
         \/ \A j \in S!ReadingIds : old[j] # None /\ old[j].meter = m => old[j].at <= new[i].at /\ j < i
  BY DEF Points, Grown
<1>7. \A s, i : i \in Points(old, m, s) => i \in S!ReadingIds /\ old[i] # None /\ old[i].meter = m /\ old[i].at >= s
  BY DEF Points
<1>8. \A s, i : i \in Points(new, m, s) => i \in S!ReadingIds /\ new[i] # None /\ new[i].meter = m /\ new[i].at >= s
  BY DEF Points
<1>9. ASSUME NEW iv \in before, iv.from >= v PROVE iv \in after
  <2>1. PICK i \in S!ReadingIds, j \in S!ReadingIds : Linked(old, m, w, i, j) /\ iv = Stretch(old, i, j)
    BY DEF StretchesOf
  <2>2. /\ i \in Points(old, m, w) /\ j \in Points(old, m, w)
        /\ old[i].at < old[j].at /\ old[j].value > old[i].value
        /\ \A l \in Points(old, m, w) : ~(Ahead(old, i, l) /\ Ahead(old, l, j))
    BY <2>1 DEF Linked, Stretch
  <2>3. old[i].at >= v
    BY <1>9, <2>1 DEF Stretch
  <2>4. i \in Points(old, m, v) /\ j \in Points(old, m, v)
    <3>1. old[j].at >= v  BY <1>4, <1>7, <2>2, <2>3
    <3> QED BY <2>2, <2>3, <3>1 DEF Points
  <2>5. new[i] = old[i] /\ new[j] = old[j] /\ i \in Points(new, m, v) /\ j \in Points(new, m, v)
    BY <1>5, <2>4
  <2>6. ASSUME NEW l \in Points(new, m, v), Ahead(new, i, l), Ahead(new, l, j) PROVE FALSE
    <3>1. CASE l \in Points(old, m, v) /\ new[l] = old[l]
      BY <1>5, <2>2, <2>5, <2>6, <3>1 DEF Ahead
    <3>2. CASE \A x \in S!ReadingIds : old[x] # None /\ old[x].meter = m => old[x].at <= new[l].at /\ x < l
      <4>1. old[j].at <= new[l].at /\ j < l  BY <1>7, <2>2, <3>2
      <4>2. old[j].at \in Int /\ new[l].at \in Int /\ l \in Int /\ j \in Int
        BY <1>4, <1>7, <1>8, <2>2, <2>6
      <4> QED BY <2>5, <2>6, <4>1, <4>2 DEF Ahead
    <3> QED BY <1>6, <2>6, <3>1, <3>2
  <2>7. Linked(new, m, v, i, j) /\ iv = Stretch(new, i, j)
    BY <2>1, <2>2, <2>5, <2>6 DEF Linked, Stretch
  <2> QED BY <2>7 DEF StretchesOf
<1>10. PICK n : \A i \in Points(new, m, v) : (i \in Points(old, m, v) /\ new[i] = old[i]) \/ i = n
  BY <1>5 DEF Points, Grown
<1>11. ASSUME NEW iv \in after
       PROVE  \/ iv \in before
              \/ \E i \in S!ReadingIds : /\ i \in Points(old, m, v) /\ new[i] = old[i]
                                        /\ n \in S!ReadingIds /\ Newest(n)
                                        /\ Linked(new, m, v, i, n) /\ iv = Stretch(new, i, n)
  <2>1. PICK i \in S!ReadingIds, j \in S!ReadingIds : Linked(new, m, v, i, j) /\ iv = Stretch(new, i, j)
    BY DEF StretchesOf
  <2>2. /\ i \in Points(new, m, v) /\ j \in Points(new, m, v)
        /\ new[i].at < new[j].at /\ new[j].value > new[i].value
        /\ \A l \in Points(new, m, v) : ~(Ahead(new, i, l) /\ Ahead(new, l, j))
    BY <2>1 DEF Linked
  <2>3. new[i].at \in Int /\ new[j].at \in Int
    BY <1>4, <1>8, <2>2
  <2>4. i \in Points(old, m, v) /\ new[i] = old[i]
    <3>1. CASE j \in Points(old, m, v) /\ new[j] = old[j]
      <4>1. j \in S!ReadingIds /\ old[j] # None /\ old[j].meter = m  BY <1>7, <3>1
      <4> QED BY <1>6, <2>2, <2>3, <3>1, <4>1
    <3>2. CASE j = n
      <4>1. i # n  BY <2>2, <2>3, <3>2
      <4> QED BY <1>10, <2>2, <4>1
    <3> QED BY <1>10, <2>2, <3>1, <3>2
  <2>5. CASE j \in Points(old, m, v) /\ new[j] = old[j]
    <3>1. i \in Points(old, m, w) /\ j \in Points(old, m, w)
      BY <1>5, <2>4, <2>5
    <3>2. ASSUME NEW l \in Points(old, m, w), Ahead(old, i, l), Ahead(old, l, j) PROVE FALSE
      <4>1. old[l].at >= v
        <5>1. old[l].at \in Int /\ old[i].at \in Int /\ old[i].at >= v /\ old[i].at <= old[l].at
          BY <1>4, <1>7, <2>4, <3>2 DEF Ahead
        <5> QED BY <5>1
      <4>2. l \in Points(old, m, v)  BY <3>2, <4>1 DEF Points
      <4>3. l \in Points(new, m, v) /\ new[l] = old[l]  BY <1>5, <4>2
      <4> QED BY <2>2, <2>4, <2>5, <3>2, <4>3 DEF Ahead
    <3>3. Linked(old, m, w, i, j) /\ iv = Stretch(old, i, j)
      BY <2>1, <2>2, <2>4, <2>5, <3>1, <3>2 DEF Linked, Stretch
    <3> QED BY <3>3 DEF StretchesOf
  <2>6. CASE Newest(j)
    <3>1. j = n
      <4> SUFFICES ASSUME j \in Points(old, m, v) PROVE FALSE
        BY <1>10, <2>2
      <4>1. j < j /\ j \in Int  BY <1>4, <1>7, <2>6
      <4> QED BY <4>1
    <3> QED BY <2>1, <2>4, <2>6, <3>1
  <2> QED BY <1>6, <2>2, <2>5, <2>6
<1>12. ASSUME NEW nu \in after, nu \notin before, NEW iv \in before PROVE iv.to <= nu.from
  <2>1. PICK i \in S!ReadingIds : /\ i \in Points(old, m, v) /\ new[i] = old[i]
                                  /\ n \in S!ReadingIds /\ Newest(n)
                                  /\ Linked(new, m, v, i, n) /\ nu = Stretch(new, i, n)
    BY <1>11, <1>12
  <2>2. /\ n \in Points(new, m, v) /\ new[i].at < new[n].at
        /\ \A l \in Points(new, m, v) : ~(Ahead(new, i, l) /\ Ahead(new, l, n))
    BY <2>1 DEF Linked
  <2>3. PICK g \in S!ReadingIds, h \in S!ReadingIds : Linked(old, m, w, g, h) /\ iv = Stretch(old, g, h)
    BY DEF StretchesOf
  <2>4. h \in Points(old, m, w) /\ iv.to = old[h].at /\ nu.from = old[i].at
    BY <2>1, <2>3 DEF Linked, Stretch
  <2>5. /\ old[h].at \in Int /\ old[i].at \in Int /\ new[n].at \in Int /\ n \in Int /\ h \in Int
        /\ h \in S!ReadingIds /\ old[h] # None /\ old[h].meter = m /\ old[i].at >= v
    BY <1>4, <1>7, <1>8, <2>1, <2>2, <2>4
  <2> SUFFICES ASSUME old[i].at < old[h].at PROVE FALSE
    BY <2>4, <2>5
  <2>6. h \in Points(old, m, v)
    BY <2>5 DEF Points
  <2>7. h \in Points(new, m, v) /\ new[h] = old[h]
    BY <1>5, <2>6
  <2>8. Ahead(new, i, h)
    BY <2>1, <2>7 DEF Ahead
  <2>9. old[h].at <= new[n].at /\ h < n
    BY <2>1, <2>5
  <2>10. Ahead(new, h, n)
    BY <2>5, <2>7, <2>9 DEF Ahead
  <2> QED BY <2>2, <2>7, <2>8, <2>10
<1>13. ASSUME NEW nu \in after, NEW mu \in after, nu \notin before, mu \notin before PROVE nu = mu
  <2>1. PICK i \in S!ReadingIds : /\ i \in Points(old, m, v) /\ new[i] = old[i]
                                  /\ Linked(new, m, v, i, n) /\ nu = Stretch(new, i, n)
    BY <1>11, <1>13
  <2>2. PICK l \in S!ReadingIds : /\ l \in Points(old, m, v) /\ new[l] = old[l]
                                  /\ Linked(new, m, v, l, n) /\ mu = Stretch(new, l, n)
    BY <1>11, <1>13
  <2>3. /\ ~(Ahead(new, i, l) /\ Ahead(new, l, n)) /\ ~(Ahead(new, l, i) /\ Ahead(new, i, n))
        /\ Ahead(new, i, n) /\ Ahead(new, l, n)
    BY <2>1, <2>2 DEF Linked, Ahead
  <2>4. i = l
    <3>1. new[i].at \in Int /\ new[l].at \in Int /\ i \in Int /\ l \in Int
      BY <1>4, <1>7, <2>1, <2>2
    <3>2. ~Ahead(new, i, l) /\ ~Ahead(new, l, i)
      BY <2>3
    <3> QED BY <3>1, <3>2 DEF Ahead
  <2> QED BY <2>1, <2>2, <2>4
<1>14. Hits(before, k) \subseteq Hits(after, k)
  BY <1>3, <1>9
<1>15. \A nu \in Hits(after, k) \ Hits(before, k) : nu \in after /\ nu \notin before
  BY <1>3
<1> QED BY <1>12, <1>13, <1>14, <1>15

StatisticsInv ==
    /\ clock \in FirstNow..LastNow
    /\ counted = [i \in S!ReadingIds |-> counted[i]]
    /\ nextCounted \in Nat \ {0}
    /\ \A i \in S!ReadingIds : i >= nextCounted => counted[i] = None
    /\ Read(counted)
    /\ \A i \in S!ReadingIds : counted[i] # None => counted[i].at \in Instants
    /\ IsFiniteSet(entries) /\ \A p \in entries : p.from \in Int /\ p.price \in Int

LEMMA CountingAlone ==
    /\ AllInit => S!Init
    /\ [AllNext]_all => [S!Next]_(S!vars)
BY DEF AllInit, AllNext, all, statistics, S!vars

LEMMA ClockRange == FirstNow \in Int /\ LastNow \in Int /\ FirstNow <= LastNow /\ Instants \subseteq Int
<1>1. FirstNow \in Int /\ LastNow \in Int /\ FirstNow <= LastNow /\ Instants \subseteq Nat
  BY StatisticsAssumption DEF StatisticsAssumption
<1> QED BY <1>1

LEMMA StatisticsInit == S!Init => StatisticsInv
<1> SUFFICES ASSUME S!Init PROVE StatisticsInv
  OBVIOUS
<1>1. PICK table \in StoredCounts :
        /\ counted = [i \in S!ReadingIds |-> IF i \in DOMAIN table THEN table[i] ELSE None]
        /\ nextCounted = Len(table) + 1
  BY DEF S!Init
<1>2. PICK n \in 0..MaxReadings : DOMAIN table = 1..n /\ Len(table) = n
  BY StatisticsAssumption DEF StatisticsAssumption
<1>3. clock = FirstNow /\ clock \in FirstNow..LastNow
  <2>1. clock = FirstNow  BY DEF S!Init
  <2> QED BY <2>1, ClockRange
<1>4. nextCounted = n + 1 /\ n \in Nat
  BY <1>1, <1>2, StatisticsAssumption DEF StatisticsAssumption
<1>5. \A i \in S!ReadingIds : i >= nextCounted => counted[i] = None
  BY <1>1, <1>2, <1>4 DEF S!ReadingIds
<1>6. ASSUME NEW i \in DOMAIN table
      PROVE  table[i].at \in Instants /\ table[i].at \in Int /\ table[i].value \in Int
  <2>1. table[i].at \in Instants
    BY DEF Instants
  <2>2. table[i].value \in Int
    BY StatisticsAssumption DEF StatisticsAssumption
  <2> QED BY <2>1, <2>2, ClockRange
<1>7. Read(counted) /\ \A i \in S!ReadingIds : counted[i] # None => counted[i].at \in Instants
  BY <1>1, <1>6 DEF Read
<1>8. IsFiniteSet(entries) /\ entries = {}
  BY FS_EmptySet DEF S!Init
<1> QED BY <1>1, <1>3, <1>4, <1>5, <1>7, <1>8 DEF StatisticsInv

LEMMA StatisticsNext == StatisticsInv /\ [S!Next]_(S!vars) => StatisticsInv'
<1> SUFFICES ASSUME StatisticsInv, [S!Next]_(S!vars) PROVE StatisticsInv'
  OBVIOUS
<1>1. CASE \E m \in CountedMeters, at \in CountTimes, v \in CountValues : S!CreateReading(m, at, v)
  <2>1. PICK m \in CountedMeters, at \in CountTimes, v \in CountValues : S!CreateReading(m, at, v)
    BY <1>1
  <2> DEFINE row == [meter |-> m, at |-> at, value |-> v]
  <2>2. /\ nextCounted \in S!ReadingIds /\ nextCounted' = nextCounted + 1 /\ clock' = clock
        /\ counted' = [counted EXCEPT ![nextCounted] = row]
    BY <2>1 DEF S!CreateReading
  <2>3. row.at \in Int /\ row.value \in Int /\ row.at \in Instants /\ entries' = entries
    <3>1. at \in Instants  BY DEF Instants
    <3>2. row.at \in Int  BY <3>1, ClockRange
    <3> QED BY <2>1, <3>1, <3>2, StatisticsAssumption DEF S!CreateReading, StatisticsAssumption
  <2> HIDE DEF row
  <2>4. Read(counted')
    BY <2>2, <2>3 DEF Read, StatisticsInv
  <2>5. \A i \in S!ReadingIds : i >= nextCounted' => counted'[i] = None
    BY <2>2 DEF StatisticsInv, S!ReadingIds
  <2>6. \A i \in S!ReadingIds : counted'[i] # None => counted'[i].at \in Instants
    BY <2>2, <2>3 DEF StatisticsInv
  <2> QED BY <2>2, <2>3, <2>4, <2>5, <2>6 DEF StatisticsInv
<1>2. CASE \E m \in CountedMeters, entry \in PriceEntries : S!CreatePrice(m, entry)
  <2>1. PICK m \in CountedMeters, entry \in PriceEntries : S!CreatePrice(m, entry)
    BY <1>2
  <2> DEFINE new == [meter |-> m, from |-> entry.from, price |-> entry.price]
  <2>2. entries' = entries \union {new} /\ UNCHANGED <<clock, counted, nextCounted>>
    BY <2>1 DEF S!CreatePrice
  <2>3. new.from \in Int /\ new.price \in Int
    BY StatisticsAssumption DEF StatisticsAssumption
  <2> HIDE DEF new
  <2>4. IsFiniteSet(entries')
    BY <2>2, FS_AddElement DEF StatisticsInv
  <2> QED BY <2>2, <2>3, <2>4 DEF StatisticsInv
<1>3. CASE \E i \in S!Rows : S!DeleteReading(i)
  <2>1. PICK i \in S!Rows : counted' = [counted EXCEPT ![i] = None] /\ UNCHANGED <<clock, nextCounted, entries>>
    BY <1>3 DEF S!DeleteReading
  <2> QED BY <2>1 DEF StatisticsInv, Read
<1>4. CASE S!Tick
  <2>1. clock' = clock + 1 /\ clock' \in FirstNow..LastNow /\ clock \in Int /\ UNCHANGED <<counted, nextCounted, entries>>
    <3>1. clock < LastNow /\ clock' = clock + 1 /\ UNCHANGED <<counted, nextCounted, entries>>
      BY <1>4 DEF S!Tick
    <3>2. clock \in FirstNow..LastNow  BY DEF StatisticsInv
    <3> QED BY <3>1, <3>2, ClockRange
  <2> QED BY <2>1 DEF StatisticsInv
<1>5. CASE UNCHANGED S!vars
  BY <1>5 DEF S!vars, StatisticsInv
<1> QED BY <1>1, <1>2, <1>3, <1>4, <1>5 DEF S!Next

(* What the month view shows of a month is made from its total. *)
ShownAs(k, total, row) ==
    /\ row.state = S!MonthState(k, total)
    /\ row.value = IF S!MonthState(k, total) = "no_data" THEN None ELSE total.value

LEMMA RowIs ==
    ASSUME NEW m, NEW k \in S!Shown
    PROVE  ShownAs(k, S!MonthTotal(S!Known(m, S!MonthWindow), k), S!Series(m)[k])
<1>1. S!Series(m)[k] = S!MonthRow(S!Known(m, S!MonthWindow), m, k)
  BY DEF S!Series
<1>2. \A ivs : ShownAs(k, S!MonthTotal(ivs, k), S!MonthRow(ivs, m, k))
  BY DEF S!MonthRow, S!MonthValue, ShownAs
<1> QED BY <1>1, <1>2

(* A step either leaves the readings of a meter, or adds one after them.   *)
LEMMA AppendedGrows ==
    ASSUME StatisticsInv, [S!Next]_(S!vars), NEW m, S!Appended(m)
    PROVE  Grown(counted, counted', m) /\ clock <= clock' /\ clock \in Int /\ clock' \in Int
<1>1. clock \in Int  BY StatisticsAssumption DEF StatisticsInv, StatisticsAssumption
<1>2. CASE UNCHANGED counted
  <2>1. clock' = clock \/ clock' = clock + 1
    BY <1>2 DEF S!Next, S!CreateReading, S!CreatePrice, S!DeleteReading, S!Tick, S!vars
  <2> QED BY <1>1, <1>2, <2>1 DEF Grown
<1>3. CASE \E mm \in CountedMeters, at \in CountTimes, v \in CountValues : S!CreateReading(mm, at, v)
  <2>1. PICK n : n = nextCounted  OBVIOUS
  <2>2. /\ n \in S!ReadingIds /\ clock' = clock /\ counted[n] = None
        /\ \A i \in S!ReadingIds : i # n => counted'[i] = counted[i]
    BY <1>3, <2>1 DEF S!CreateReading, StatisticsInv, S!ReadingIds
  <2>3. \A i \in S!ReadingIds : counted[i] # None => i < n
    BY <2>1, <2>2 DEF StatisticsInv, S!ReadingIds
  <2>4. ASSUME counted'[n] # None, counted'[n].meter = m,
               NEW j \in S!ReadingIds, counted[j] # None, counted[j].meter = m
        PROVE  counted[j].at <= counted'[n].at
    BY <2>2, <2>4 DEF S!Appended, S!Rows
  <2> QED BY <1>1, <2>2, <2>3, <2>4 DEF Grown
<1>4. CASE \E i \in S!Rows : S!DeleteReading(i)
  <2>1. PICK i \in S!Rows : counted' = [counted EXCEPT ![i] = None] /\ clock' = clock
    BY <1>4 DEF S!DeleteReading
  <2>2. i \in S!ReadingIds /\ counted[i] # None /\ counted'[i] = None
        /\ \A j \in S!ReadingIds : j # i => counted'[j] = counted[j]
    BY <2>1 DEF S!Rows, StatisticsInv
  <2>3. counted[i].meter # m
    BY <2>2 DEF S!Appended
  <2> QED BY <1>1, <2>1, <2>2, <2>3 DEF Grown
<1>5. CASE S!Tick \/ UNCHANGED S!vars \/ \E mm \in CountedMeters, entry \in PriceEntries : S!CreatePrice(mm, entry)
  BY <1>2, <1>5 DEF S!Tick, S!vars, S!CreatePrice
<1> QED BY <1>3, <1>4, <1>5 DEF S!Next

SharesOf(hits, from, to) == S!MapThenSumSet(LAMBDA iv : S!Share(iv, from, to), hits)

Shares(hits, from, to) == [iv \in hits |-> S!Share(iv, from, to)]

(* Shares that are added are a sum over intervals.                         *)
LEMMA SharesSum ==
    ASSUME NEW from, NEW to, NEW hits, IsFiniteSet(hits), Shares(hits, from, to) \in [hits -> Int]
    PROVE  \E sum : SumsUp(sum, Shares(hits, from, to), hits) /\ SharesOf(hits, from, to) = sum[hits]
<1> DEFINE f == Shares(hits, from, to)
           Eqn(g) == g = [s \in SUBSET hits |->
                            IF s = {} THEN 0
                            ELSE S!Share(CHOOSE r \in s : TRUE, from, to) + g[s \ {CHOOSE r \in s : TRUE}]]
<1>1. \A g : Folded(g, f, hits) <=> Eqn(g)
  <2> SUFFICES ASSUME NEW g PROVE Folded(g, f, hits) <=> Eqn(g)
    OBVIOUS
  <2>1. ASSUME NEW s \in SUBSET hits
        PROVE  Folding(g, f, s) = IF s = {} THEN 0
                                  ELSE S!Share(CHOOSE r \in s : TRUE, from, to) + g[s \ {CHOOSE r \in s : TRUE}]
    <3>1. s # {} => Chosen(s) \in hits /\ f[Chosen(s)] = S!Share(Chosen(s), from, to)
      BY ChosenIn DEF Shares
    <3> QED BY <3>1 DEF Folding, Chosen
  <2> QED BY <2>1 DEF Folded
<1>2. PICK h : Eqn(h)
  <2>1. \E g : Folded(g, f, hits)
    <3> HIDE DEF Eqn, f
    <3> QED BY FoldExists DEF f
  <2> HIDE DEF Eqn
  <2> QED BY <1>1, <2>1
<1> DEFINE sum == CHOOSE g : Eqn(g)
<1>3. SharesOf(hits, from, to) = sum[hits]
  BY DEF SharesOf, S!MapThenSumSet, S!MapThenFoldSet
<1> HIDE DEF Eqn, f
<1>4. Eqn(sum)  BY <1>2
<1> HIDE DEF sum
<1>5. SumsUp(sum, f, hits)  BY <1>1, <1>4, FoldSums DEF f
<1> QED BY <1>3, <1>5 DEF f

LEMMA ShareInt ==
    ASSUME NEW iv, iv.from \in Int, iv.to \in Int, iv.from < iv.to, iv.consumption \in Int,
           NEW a \in Int, NEW b \in Int
    PROVE  S!Overlap(iv, a, b) \in Int /\ S!Share(iv, a, b) \in Int
<1> DEFINE o == S!Overlap(iv, a, b)  d == iv.to - iv.from  c == iv.consumption
<1>1. o \in Int  BY OverlapIs
<1>2. d \in Nat \ {0} /\ c * o \in Int  BY <1>1
<1>3. S!Share(iv, a, b) = (c * o) \div d  BY DEF S!Share
<1> HIDE DEF o, d, c
<1>4. (c * o) \div d \in Int  BY <1>2, DivMod
<1> QED BY <1>1, <1>3, <1>4 DEF o

(* One interval more: what it covers and its share are added.              *)
LEMMA OneMore ==
    ASSUME NEW k \in 1..(Len(MonthStart) - 1), NEW more, IsFiniteSet(more), NEW nu \in more,
           \A iv \in more : /\ iv.from \in Int /\ iv.to \in Int /\ iv.from < iv.to
                            /\ iv.consumption \in Int
    PROVE  /\ CoveredOf(more, k) = CoveredOf(more \ {nu}, k) + S!Overlap(nu, MonthStart[k], MonthStart[k + 1])
           /\ SharesOf(more, MonthStart[k], MonthStart[k + 1]) =
                 SharesOf(more \ {nu}, MonthStart[k], MonthStart[k + 1]) + S!Share(nu, MonthStart[k], MonthStart[k + 1])
           /\ CoveredOf(more \ {nu}, k) \in Int /\ SharesOf(more \ {nu}, MonthStart[k], MonthStart[k + 1]) \in Int
<1> DEFINE a == MonthStart[k]
           e == MonthStart[k + 1]
           hits == more \ {nu}
<1>1. a \in Int /\ e \in Int  BY Calendar
<1>2. hits \subseteq more /\ IsFiniteSet(hits)  BY FS_Subset
<1> HIDE DEF hits
<1>3. \A iv \in more : S!Overlap(iv, a, e) \in Int /\ S!Share(iv, a, e) \in Int
  <2> HIDE DEF a, e
  <2> QED BY <1>1, ShareInt
<1>4. /\ Overlaps(more, k) \in [more -> Int] /\ Overlaps(hits, k) \in [hits -> Int]
      /\ \A iv \in hits : Overlaps(hits, k)[iv] = Overlaps(more, k)[iv]
      /\ Overlaps(more, k)[nu] = S!Overlap(nu, a, e)
  BY <1>2, <1>3 DEF Overlaps
<1>5. /\ Shares(more, a, e) \in [more -> Int] /\ Shares(hits, a, e) \in [hits -> Int]
      /\ \A iv \in hits : Shares(hits, a, e)[iv] = Shares(more, a, e)[iv]
      /\ Shares(more, a, e)[nu] = S!Share(nu, a, e)
  BY <1>2, <1>3 DEF Shares
<1> HIDE DEF a, e
<1>6. PICK sum : SumsUp(sum, Overlaps(more, k), more) /\ CoveredOf(more, k) = sum[more]
  BY <1>4, CoveredSum
<1>7. PICK old : SumsUp(old, Overlaps(hits, k), hits) /\ CoveredOf(hits, k) = old[hits]
  BY <1>2, <1>4, CoveredSum
<1>8. old[hits] = sum[hits]
  <2> DEFINE f == Overlaps(hits, k)  g == Overlaps(more, k)
  <2>1. f \in [hits -> Int] /\ g \in [more -> Int] /\ \A iv \in hits : f[iv] = g[iv]  BY <1>4
  <2>2. SumsUp(sum, g, more) /\ SumsUp(old, f, hits)  BY <1>6, <1>7
  <2> HIDE DEF f, g
  <2> QED BY <1>2, <2>1, <2>2, SumsAgree
<1>9. sum[more] = S!Overlap(nu, a, e) + sum[hits] /\ sum[hits] \in Int
  BY <1>2, <1>4, <1>6 DEF SumsUp, hits
<1>10. PICK whole : SumsUp(whole, Shares(more, a, e), more) /\ SharesOf(more, a, e) = whole[more]
  BY <1>5, SharesSum
<1>11. PICK part : SumsUp(part, Shares(hits, a, e), hits) /\ SharesOf(hits, a, e) = part[hits]
  BY <1>2, <1>5, SharesSum
<1>12. part[hits] = whole[hits]
  BY SMTT(30), <1>2, <1>5, <1>10, <1>11, SumsAgree
<1>13. whole[more] = S!Share(nu, a, e) + whole[hits] /\ whole[hits] \in Int
  BY <1>2, <1>5, <1>10 DEF SumsUp, hits
<1>14. S!Overlap(nu, a, e) \in Int /\ S!Share(nu, a, e) \in Int  BY <1>3
<1>15. CoveredOf(more, k) = CoveredOf(hits, k) + S!Overlap(nu, a, e) /\ CoveredOf(hits, k) \in Int
  BY <1>6, <1>7, <1>8, <1>9, <1>14
<1>16. SharesOf(more, a, e) = SharesOf(hits, a, e) + S!Share(nu, a, e) /\ SharesOf(hits, a, e) \in Int
  BY <1>10, <1>11, <1>12, <1>13, <1>14
<1> QED BY <1>15, <1>16 DEF a, e, hits

(* A month is made from its total.                                         *)
LEMMA MonthIs ==
    /\ \A ivs, k : /\ S!MonthTotal(ivs, k).covered = CoveredOf(Hits(ivs, k), k)
                   /\ S!MonthTotal(ivs, k).value = SharesOf(Hits(ivs, k), MonthStart[k], MonthStart[k + 1])
    /\ \A ivs, k : S!MonthValue(ivs, k).state = S!MonthState(k, S!MonthTotal(ivs, k))
    /\ \A ivs, k : S!MonthValue(ivs, k).state = "complete" =>
                      S!MonthValue(ivs, k).value = S!MonthTotal(ivs, k).value
    /\ \A ivs, later, k : S!MonthTotal(ivs, k) = S!MonthTotal(later, k) =>
          S!MonthValue(later, k) = S!MonthValue(ivs, k) /\ S!Estimated(later, k) = S!Estimated(ivs, k)
<1>1. ASSUME NEW ivs, NEW k
      PROVE  /\ S!MonthTotal(ivs, k).covered = CoveredOf(Hits(ivs, k), k)
             /\ S!MonthTotal(ivs, k).value = SharesOf(Hits(ivs, k), MonthStart[k], MonthStart[k + 1])
  BY MonthTotalIs DEF TotalOf, CoveredOf, SharesOf
<1>2. ASSUME NEW ivs, NEW k
      PROVE  /\ S!MonthValue(ivs, k).state = S!MonthState(k, S!MonthTotal(ivs, k))
             /\ S!MonthValue(ivs, k).state = "complete" =>
                   S!MonthValue(ivs, k).value = S!MonthTotal(ivs, k).value
  BY DEF S!MonthValue
<1>3. ASSUME NEW ivs, NEW later, NEW k, S!MonthTotal(ivs, k) = S!MonthTotal(later, k)
      PROVE  S!MonthValue(later, k) = S!MonthValue(ivs, k) /\ S!Estimated(later, k) = S!Estimated(ivs, k)
  BY <1>3 DEF S!MonthValue, S!Estimated
<1> QED BY <1>1, <1>2, <1>3

LEMMA CompleteIs ==
    ASSUME NEW k \in 1..(Len(MonthStart) - 1), NEW total, total.covered \in Int
    PROVE  S!MonthState(k, total) = "complete" <=>
              total.covered > 0 /\ total.covered >= MonthStart[k + 1] - MonthStart[k] - Tolerance
<1> DEFINE c == total.covered
           n == MonthStart[k + 1] - MonthStart[k] - Tolerance
<1>1. c \in Int /\ n \in Int
  BY Calendar, StatisticsAssumption DEF StatisticsAssumption
<1>2. S!MonthState(k, total) = CASE c <= 0 -> "no_data" [] c > 0 /\ c >= n -> "complete" [] OTHER -> "partial"
  BY DEF S!MonthState
<1> HIDE DEF c, n
<1> QED BY <1>1, <1>2 DEF c, n

(* For any readings, of the future too, any calendar, any clock and any    *)
(* tolerance: once a month is complete, neither time nor newer readings    *)
(* change its state, its value or whether it is called estimated, while    *)
(* the intervals it is measured by are loaded; but for the share of one    *)
(* later interval, in no more of the month than may be uncovered.          *)
THEOREM CompleteMonthsAreFinal == AllSpec => CompleteMonthsStay
<1> DEFINE Finals ==
             \A m \in CountedMeters : (clock # clock' \/ counted # counted') /\ S!Appended(m) =>
                \A ivs \in {S!Known(m, S!MonthWindow)}, later \in {S!Known(m, S!MonthWindow)'} :
                   \A k \in S!Shown \intersect S!Shown' :
                      S!SettledMonth(ivs, k) => S!MonthStays(ivs, later, k)
<1>1. AllInit => StatisticsInv  BY CountingAlone, StatisticsInit
<1>2. StatisticsInv /\ [AllNext]_all => StatisticsInv'  BY CountingAlone, StatisticsNext
<1>3. StatisticsInv /\ [AllNext]_all => Finals
  <2> SUFFICES ASSUME StatisticsInv, [S!Next]_(S!vars), NEW m \in CountedMeters, S!Appended(m),
                      NEW before \in {S!Known(m, S!MonthWindow)}, NEW after \in {S!Known(m, S!MonthWindow)'},
                      NEW k \in S!Shown \intersect S!Shown', S!SettledMonth(before, k)
               PROVE  S!MonthStays(before, after, k)
    BY CountingAlone
  <2> DEFINE a == MonthStart[k]
             e == MonthStart[k + 1]
             old == Hits(before, k)
             new == Hits(after, k)
  <2>1. PICK w, v : w = S!MonthWindow /\ v = S!MonthWindow'
    OBVIOUS
  <2>2. Grown(counted, counted', m) /\ clock <= clock' /\ clock \in Int /\ clock' \in Int
    BY AppendedGrows
  <2>3. w \in Int /\ v \in Int /\ w <= v
    <3>1. (Months + MonthsPerYear) * LongestMonth + 1 \in Int
      BY StatisticsAssumption DEF StatisticsAssumption
    <3> QED BY <2>1, <2>2, <3>1 DEF S!MonthWindow
  <2>4. Read(counted) /\ Read(counted')
    BY StatisticsNext DEF StatisticsInv
  <2>5. StretchesOf(counted, m, w, before) /\ StretchesOf(counted', m, v, after)
    BY <2>1, KnownIs DEF StretchesOf
  <2>6. k \in 1..(Len(MonthStart) - 1)
    <3>1. clock \in FirstNow..LastNow  BY DEF StatisticsInv
    <3>2. S!MonthOf(clock) \in Months..(Len(MonthStart) - 1)  BY <3>1, MonthOfIs
    <3>3. k \in (S!MonthOf(clock) - Months + 1)..S!MonthOf(clock)  BY DEF S!Shown
    <3>4. Months \in Int /\ Len(MonthStart) \in Int
      BY Calendar, StatisticsAssumption DEF StatisticsAssumption
    <3> QED BY <3>2, <3>3, <3>4
  <2>7. Disjoint(before) /\ Disjoint(after)
    BY <2>4, <2>5, KnownDisjoint DEF StretchesOf
  <2>8. \A iv \in old : iv.from >= v
    BY <2>1 DEF S!SettledMonth, S!InMonth, Hits
  <2>9. /\ old \subseteq new
        /\ \A nu \in new \ old : \A iv \in before : iv.to <= nu.from
        /\ \A nu, mu \in new \ old : nu = mu
    BY <2>2, <2>3, <2>4, <2>5, <2>6, <2>8, HitsGrow
  <2>10. S!MonthState(k, S!MonthTotal(before, k)) = "complete"
    BY MonthIs DEF S!SettledMonth
  <2>11. CASE new \subseteq old
    <3>1. S!MonthTotal(before, k) = S!MonthTotal(after, k)
      <4>1. old = new  BY <2>9, <2>11
      <4> QED BY <4>1, MonthTotalIs
    <3>2. S!MonthValue(after, k) = S!MonthValue(before, k) /\ S!Estimated(after, k) = S!Estimated(before, k)
      BY <3>1, MonthIs
    <3>3. S!MonthValue(before, k).state = "complete"
      BY <2>10, MonthIs
    <3> QED BY <3>2, <3>3 DEF S!MonthStays
  <2>12. CASE ~(new \subseteq old)
    <3>1. PICK nu \in new : nu \notin old
      BY <2>12
    <3>2. old = new \ {nu}
      BY <2>9, <3>1
    <3>3. /\ IsFiniteSet(new) /\ nu \in after /\ S!Overlap(nu, a, e) > 0
          /\ \A iv \in new : iv.from \in Int /\ iv.to \in Int /\ iv.from < iv.to /\ iv.consumption \in Int
      <4>1. new \subseteq after /\ \A iv \in new : S!Overlap(iv, a, e) > 0
        BY DEF Hits
      <4>2. ASSUME NEW iv \in after PROVE iv.consumption \in Int
        <5>1. PICK i \in S!ReadingIds, j \in S!ReadingIds :
                     Linked(counted', m, v, i, j) /\ iv = Stretch(counted', i, j)
          BY <2>5 DEF StretchesOf
        <5>2. Scale \in Int /\ counted'[i].value \in Int /\ counted'[j].value \in Int
          BY <2>4, <5>1, StatisticsAssumption DEF StatisticsAssumption, Read, Linked, Points
        <5> QED BY <5>1, <5>2 DEF Stretch
      <4> HIDE DEF new
      <4> QED BY <2>7, <3>1, <4>1, <4>2, FS_Subset DEF Disjoint
    <3>4. a \in Int /\ e \in Int /\ a < e /\ Tolerance \in Nat
      BY <2>6, Calendar, StatisticsAssumption DEF StatisticsAssumption
    <3>5. /\ CoveredOf(new, k) = CoveredOf(old, k) + S!Overlap(nu, a, e)
          /\ SharesOf(new, a, e) = SharesOf(old, a, e) + S!Share(nu, a, e)
          /\ CoveredOf(old, k) \in Int /\ SharesOf(old, a, e) \in Int
      <4> HIDE DEF new, old
      <4> QED BY <2>6, <3>1, <3>2, <3>3, OneMore
    <3>6. /\ S!MonthTotal(before, k).covered = CoveredOf(old, k) /\ S!MonthTotal(after, k).covered = CoveredOf(new, k)
          /\ S!MonthTotal(before, k).value = SharesOf(old, a, e) /\ S!MonthTotal(after, k).value = SharesOf(new, a, e)
      BY MonthIs
    <3>7. CoveredOf(old, k) > 0 /\ CoveredOf(old, k) >= e - a - Tolerance
      BY <2>6, <2>10, <3>5, <3>6, CompleteIs
    <3>8. S!Overlap(nu, a, e) \in 1..Tolerance
      <4> DEFINE t == IF nu.from >= a THEN nu.from ELSE a
      <4>1. nu.from \in Int /\ nu.to \in Int /\ nu.from < nu.to  BY <3>1, <3>3
      <4>2. t \in Int /\ a <= t /\ nu.from <= t  BY <3>4, <4>1
      <4>3. \A iv \in before : iv.to <= t
        <5>1. ASSUME NEW iv \in before PROVE iv.to <= nu.from /\ iv.to \in Int
          BY <2>7, <2>9, <3>1 DEF Disjoint
        <5> HIDE DEF t
        <5> QED BY <4>1, <4>2, <5>1
      <4>4. S!Overlap(nu, a, e) = (IF nu.to <= e THEN nu.to ELSE e) - t
        BY <3>4, <4>1, OverlapIs
      <4> HIDE DEF t
      <4>5. CoveredOf(old, k) <= t - a
        BY <2>6, <2>7, <3>6, <4>2, <4>3, CoveredUpTo
      <4>6. S!Overlap(nu, a, e) <= e - t /\ S!Overlap(nu, a, e) \in Int
        BY <3>4, <4>1, <4>2, <4>4
      <4> HIDE DEF a, e, old
      <4> QED BY <3>3, <3>4, <3>5, <3>7, <4>2, <4>5, <4>6
    <3>9. S!MonthState(k, S!MonthTotal(after, k)) = "complete"
      <4>1. CoveredOf(new, k) > 0 /\ CoveredOf(new, k) >= e - a - Tolerance /\ CoveredOf(new, k) \in Int
        <5> HIDE DEF a, e, old, new
        <5> QED BY <3>4, <3>5, <3>7, <3>8
      <4> QED BY <2>6, <3>6, <4>1, CompleteIs
    <3>10. S!MonthValue(after, k).state = "complete"
           /\ S!MonthValue(after, k).value = S!MonthValue(before, k).value + S!Share(nu, a, e)
      <4>1. S!MonthValue(after, k).state = "complete" /\ S!MonthValue(before, k).state = "complete"
        BY <2>10, <3>9, MonthIs
      <4> QED BY <3>5, <3>6, <4>1, MonthIs
    <3>11. nu \notin before
      <4> SUFFICES ASSUME nu \in before PROVE FALSE
        OBVIOUS
      <4>1. nu.to <= nu.from  BY <2>9, <3>1
      <4> QED BY <3>1, <3>3, <4>1
    <3>12. S!Share(nu, a, e) \in S!Added(before, after, k)
      BY <3>3, <3>8, <3>11 DEF S!Added, S!InMonth
    <3> QED BY <3>10, <3>12 DEF S!MonthStays
  <2> QED BY <2>11, <2>12
<1> HIDE DEF Finals
<1>4. StatisticsInv /\ [AllNext]_all => [Finals]_(S!vars)
  BY <1>3
<1>5. AllSpec => [][Finals]_(S!vars)
  BY <1>1, <1>2, <1>4, PTL DEF AllSpec
<1> QED BY <1>5 DEF CompleteMonthsStay, S!CompleteMonthsStay, Finals

----------------------------------------------------------------------------
(* Statistics: what the views agree on *)

(* What is given to a stretch of time, when a whole amount is consumed in  *)
(* every unit of an interval.                                              *)
Steady(iv, r) == r \in Int /\ iv.consumption = r * (iv.to - iv.from)

Rate(iv) == CHOOSE r : Steady(iv, r)

Measured(iv) ==
    /\ iv.from \in Int /\ iv.to \in Int /\ iv.from < iv.to
    /\ \E r : Steady(iv, r)

Clip(iv, t) == IF t <= iv.from THEN iv.from ELSE IF t >= iv.to THEN iv.to ELSE t

LEMMA ShareIs ==
    ASSUME NEW iv, Measured(iv), NEW a \in Int, NEW b \in Int, a <= b
    PROVE  /\ Rate(iv) \in Int /\ iv.consumption = Rate(iv) * (iv.to - iv.from)
           /\ S!Overlap(iv, a, b) > 0 => S!Share(iv, a, b) = Rate(iv) * Clip(iv, b) - Rate(iv) * Clip(iv, a)
           /\ ~(S!Overlap(iv, a, b) > 0) => Clip(iv, b) = Clip(iv, a)
           /\ Clip(iv, a) \in Int /\ Clip(iv, b) \in Int
<1> DEFINE r == Rate(iv)
           o == S!Overlap(iv, a, b)
           d == iv.to - iv.from
<1>1. Steady(iv, r)
  BY DEF Measured, Rate
<1>2. iv.from \in Int /\ iv.to \in Int /\ iv.from < iv.to
  BY DEF Measured
<1>3. o = (IF iv.to <= b THEN iv.to ELSE b) - (IF iv.from >= a THEN iv.from ELSE a)
  BY <1>2, OverlapIs
<1>4. r \in Int /\ d \in Nat \ {0} /\ o \in Int /\ iv.consumption = r * d
  <2>1. o \in Int  BY <1>2, <1>3
  <2> QED BY <1>1, <1>2, <2>1 DEF Steady
<1>5. o > 0 => o = Clip(iv, b) - Clip(iv, a)
  BY <1>2, <1>3 DEF Clip
<1>6. ~(o > 0) => Clip(iv, b) = Clip(iv, a)
  BY <1>2, <1>3 DEF Clip
<1>7. Clip(iv, a) \in Int /\ Clip(iv, b) \in Int
  BY <1>2 DEF Clip
<1>8. S!Share(iv, a, b) = r * o
  <2>1. S!Share(iv, a, b) = ((r * d) * o) \div d
    BY <1>4 DEF S!Share
  <2> HIDE DEF r, o, d
  <2>2. (r * d) * o = (r * o) * d /\ r * o \in Int
    BY <1>4
  <2> QED BY <1>4, <2>1, <2>2, DivExact
<1>9. \A i, j, k \in Int : i * (j - k) = i * j - i * k
  OBVIOUS
<1> HIDE DEF r, o
<1> QED BY <1>2, <1>4, <1>5, <1>6, <1>7, <1>8, <1>9 DEF r, o, d

(* How much is consumed in intervals before an instant, on a scale of its  *)
(* own.                                                                    *)
Levels(ivs, t) == [iv \in ivs |-> Rate(iv) * Clip(iv, t)]

Level(ivs, t) == (CHOOSE sum : SumsUp(sum, Levels(ivs, t), ivs))[ivs]

InReach(ivs, from, to) == {iv \in ivs : S!Overlap(iv, from, to) > 0}

(* A level is the sum of what each interval adds to it.                    *)
LEMMA LevelIs ==
    ASSUME NEW ivs, IsFiniteSet(ivs), \A iv \in ivs : Measured(iv), NEW t \in Int
    PROVE  /\ Levels(ivs, t) \in [ivs -> Int]
           /\ \E sum : SumsUp(sum, Levels(ivs, t), ivs) /\ Level(ivs, t) = sum[ivs]
<1>1. \A iv \in ivs : Rate(iv) * Clip(iv, t) \in Int
  <2> SUFFICES ASSUME NEW iv \in ivs PROVE Rate(iv) * Clip(iv, t) \in Int
    OBVIOUS
  <2>1. Rate(iv) \in Int /\ Clip(iv, t) \in Int  BY ShareIs
  <2> QED BY <2>1
<1>2. Levels(ivs, t) \in [ivs -> Int]
  BY <1>1 DEF Levels
<1>3. \E sum : SumsUp(sum, Levels(ivs, t), ivs)
  <2>1. PICK sum : Folded(sum, Levels(ivs, t), ivs)  BY <1>2, FoldExists
  <2> QED BY <1>2, <2>1, FoldSums
<1> QED BY <1>2, <1>3 DEF Level

(* The shares of a stretch of time are what the level rises by.            *)
LEMMA LevelRises ==
    ASSUME NEW ivs, IsFiniteSet(ivs), \A iv \in ivs : Measured(iv), NEW a \in Int, NEW b \in Int, a <= b
    PROVE  /\ Level(ivs, a) \in Int /\ Level(ivs, b) \in Int
           /\ SharesOf(InReach(ivs, a, b), a, b) = Level(ivs, b) - Level(ivs, a)
<1> DEFINE hits == InReach(ivs, a, b)
           Portion(iv) == IF iv \in hits THEN S!Share(iv, a, b) ELSE 0
           p == [iv \in ivs |-> Portion(iv)]
<1>1. PICK low : SumsUp(low, Levels(ivs, a), ivs) /\ Level(ivs, a) = low[ivs]  BY LevelIs
<1>2. PICK high : SumsUp(high, Levels(ivs, b), ivs) /\ Level(ivs, b) = high[ivs]  BY LevelIs
<1>3. Levels(ivs, a) \in [ivs -> Int] /\ Levels(ivs, b) \in [ivs -> Int]  BY LevelIs
<1>4. \A iv \in ivs : p[iv] = Levels(ivs, b)[iv] - Levels(ivs, a)[iv]
  <2> SUFFICES ASSUME NEW iv \in ivs PROVE Portion(iv) = Rate(iv) * Clip(iv, b) - Rate(iv) * Clip(iv, a)
    BY DEF Levels
  <2>1. /\ Rate(iv) \in Int /\ Clip(iv, a) \in Int
        /\ S!Overlap(iv, a, b) > 0 => S!Share(iv, a, b) = Rate(iv) * Clip(iv, b) - Rate(iv) * Clip(iv, a)
        /\ ~(S!Overlap(iv, a, b) > 0) => Clip(iv, b) = Clip(iv, a)
    BY ShareIs
  <2>2. Rate(iv) * Clip(iv, a) \in Int  BY <2>1
  <2>3. iv \in hits <=> S!Overlap(iv, a, b) > 0  BY DEF InReach
  <2> QED BY <2>1, <2>2, <2>3
<1>5. p \in [ivs -> Int]
  <2>1. \A iv \in ivs : p[iv] \in Int  BY <1>3, <1>4
  <2> QED BY <2>1
<1>6. hits \in SUBSET ivs /\ IsFiniteSet(hits)  BY FS_Subset DEF InReach
<1>7. Shares(hits, a, b) \in [hits -> Int] /\ \A iv \in hits : Shares(hits, a, b)[iv] = p[iv]
  <2>1. \A iv \in hits : S!Share(iv, a, b) = p[iv] /\ p[iv] \in Int  BY <1>5, <1>6
  <2> QED BY <2>1 DEF Shares
<1>8. PICK sum : SumsUp(sum, Shares(hits, a, b), hits) /\ SharesOf(hits, a, b) = sum[hits]
  BY <1>6, <1>7, SharesSum
<1>9. \A iv \in ivs \ hits : p[iv] = 0  OBVIOUS
<1> HIDE DEF p, hits
<1>10. PICK q : SumsUp(q, p, ivs)
  <2>1. PICK q : Folded(q, p, ivs)  BY <1>5, FoldExists
  <2> QED BY <1>5, <2>1, FoldSums
<1>11. q[ivs] = high[ivs] - low[ivs]
  BY <1>1, <1>2, <1>3, <1>4, <1>5, <1>10, SumsCompare
<1>12. q[hits] = sum[hits]
  BY <1>5, <1>6, <1>7, <1>8, <1>10, SumsAgree
<1>13. q[ivs \ hits] = 0
  BY <1>5, <1>6, <1>9, <1>10, SumOfNothing
<1>14. q[hits \union (ivs \ hits)] = q[hits] + q[ivs \ hits]
  BY <1>5, <1>6, <1>10, SumOfUnion
<1>15. hits \union (ivs \ hits) = ivs  BY <1>6
<1>16. low[ivs] \in Int /\ high[ivs] \in Int /\ q[hits] \in Int
  BY <1>1, <1>2, <1>6, <1>10 DEF SumsUp
<1> QED BY <1>1, <1>2, <1>8, <1>11, <1>12, <1>13, <1>14, <1>15, <1>16 DEF hits

(* Readings are taken in the time the calendar covers, and the             *)
(* consumption between two of them is a multiple of the time between them. *)
LEMMA KnownMeasured ==
    ASSUME StatisticsInv, NEW m, NEW since
    PROVE  /\ Disjoint(S!Known(m, since))
           /\ \A iv \in S!Known(m, since) :
                 Measured(iv) /\ MonthStart[1] <= iv.from /\ iv.to < MonthStart[Len(MonthStart)]
<1> DEFINE ivs == S!Known(m, since)
<1>1. Disjoint(ivs)
  <2>1. Read(counted)  BY DEF StatisticsInv
  <2>2. \A iv : iv \in ivs <=> \E i, j \in S!ReadingIds : Linked(counted, m, since, i, j) /\ iv = Stretch(counted, i, j)
    BY KnownIs
  <2> HIDE DEF ivs
  <2> QED BY <2>1, <2>2, KnownDisjoint
<1>2. ASSUME NEW iv \in ivs
      PROVE  Measured(iv) /\ MonthStart[1] <= iv.from /\ iv.to < MonthStart[Len(MonthStart)]
  <2>1. PICK i \in S!ReadingIds, j \in S!ReadingIds : Linked(counted, m, since, i, j) /\ iv = Stretch(counted, i, j)
    BY KnownIs
  <2> DEFINE s == counted[i].at
             t == counted[j].at
             rise == counted[j].value - counted[i].value
             d == t - s
  <2>2. counted[i] # None /\ counted[j] # None /\ s < t
    BY <2>1 DEF Linked, Points
  <2>3. s \in Instants /\ t \in Instants /\ t < MonthStart[Len(MonthStart)] /\ rise \in Int
    <3>1. s \in Instants /\ t \in Instants /\ rise \in Int
      BY <2>2 DEF StatisticsInv, Read
    <3>2. \A u \in Instants : u < MonthStart[Len(MonthStart)]
      BY StatisticsAssumption DEF StatisticsAssumption
    <3> HIDE DEF t
    <3> QED BY <3>1, <3>2
  <2>4. s \in Nat /\ t \in Nat /\ MonthStart[1] <= 0 /\ MonthStart[1] \in Int /\ Scale \in Int /\ Scale % d = 0
    <3>1. 1 \in DOMAIN MonthStart
      BY Calendar, StatisticsAssumption DEF StatisticsAssumption
    <3>2. MonthStart[1] \in Int  BY <3>1, Calendar
    <3> QED BY <2>2, <2>3, <3>2, StatisticsAssumption DEF StatisticsAssumption
  <2>5. iv.from = s /\ iv.to = t /\ iv.consumption = Scale * rise
    BY <2>1 DEF Stretch
  <2> HIDE DEF s, t, rise
  <2>6. d \in Nat \ {0}
    BY <2>2, <2>4
  <2>7. Scale = d * (Scale \div d) /\ Scale \div d \in Int
    <3> HIDE DEF d
    <3> QED BY <2>4, <2>6, DivMod
  <2> DEFINE q == Scale \div d
  <2>8. Scale * rise = (q * rise) * d /\ q * rise \in Int
    <3> HIDE DEF q, d
    <3>1. Scale = d * q /\ q \in Int /\ d \in Int  BY <2>6, <2>7 DEF q
    <3> QED BY <2>3, <3>1
  <2>9. Steady(iv, q * rise)
    BY <2>5, <2>8 DEF Steady
  <2> QED BY <2>2, <2>3, <2>4, <2>5, <2>9 DEF Measured
<1> QED BY <1>1, <1>2

(* The hits of a month are the intervals that overlap it. *)
LEMMA HitsOverlap ==
    ASSUME NEW ivs, \A iv \in ivs : Measured(iv), NEW k \in 1..(Len(MonthStart) - 1)
    PROVE  /\ Hits(ivs, k) = InReach(ivs, MonthStart[k], MonthStart[k + 1])
           /\ \A iv \in ivs : iv \in Hits(ivs, k) <=> iv.from < MonthStart[k + 1] /\ MonthStart[k] < iv.to
<1> DEFINE a == MonthStart[k]
           e == MonthStart[k + 1]
<1>1. a \in Int /\ e \in Int /\ a < e  BY Calendar
<1>2. ASSUME NEW iv \in ivs
      PROVE  S!Overlap(iv, a, e) > 0 <=> iv.from < e /\ a < iv.to
  <2>1. iv.from \in Int /\ iv.to \in Int /\ iv.from < iv.to  BY DEF Measured
  <2> HIDE DEF a, e
  <2> QED BY <1>1, <2>1, OverlapIs
<1>3. \A iv \in ivs : S!Spans(iv, k) <=> iv.from < e /\ a < iv.to
  BY DEF S!Spans
<1>4. \A iv \in ivs : iv \in Hits(ivs, k) <=> S!Spans(iv, k) /\ S!Overlap(iv, a, e) > 0
  BY DEF Hits
<1>5. \A iv \in ivs : iv \in InReach(ivs, a, e) <=> S!Overlap(iv, a, e) > 0
  BY DEF InReach
<1>6. Hits(ivs, k) \subseteq ivs /\ InReach(ivs, a, e) \subseteq ivs
  BY DEF Hits, InReach
<1> HIDE DEF a, e
<1>7. Hits(ivs, k) = InReach(ivs, a, e)
  BY <1>2, <1>3, <1>4, <1>5, <1>6
<1> QED BY <1>2, <1>3, <1>4, <1>7 DEF a, e

(* What a month is given is what the level rises by in it. *)
LEMMA MonthRises ==
    ASSUME NEW ivs, IsFiniteSet(ivs), \A iv \in ivs : Measured(iv), NEW k \in 1..(Len(MonthStart) - 1)
    PROVE  /\ Level(ivs, MonthStart[k]) \in Int /\ Level(ivs, MonthStart[k + 1]) \in Int
           /\ S!MonthTotal(ivs, k).value = Level(ivs, MonthStart[k + 1]) - Level(ivs, MonthStart[k])
<1> DEFINE a == MonthStart[k]
           e == MonthStart[k + 1]
<1>1. a \in Int /\ e \in Int /\ a < e  BY Calendar
<1>2. S!MonthTotal(ivs, k).value = SharesOf(InReach(ivs, a, e), a, e)
  BY HitsOverlap, MonthTotalIs DEF TotalOf, SharesOf
<1> HIDE DEF a, e
<1>3. /\ Level(ivs, a) \in Int /\ Level(ivs, e) \in Int
      /\ SharesOf(InReach(ivs, a, e), a, e) = Level(ivs, e) - Level(ivs, a)
  BY <1>1, LevelRises
<1> QED BY <1>2, <1>3 DEF a, e

(* Month after month, what the months are given adds up to what the level  *)
(* rises by from the first to the last of them.                            *)
LEMMA MonthsRise ==
    ASSUME NEW ivs, IsFiniteSet(ivs), \A iv \in ivs : Measured(iv),
           NEW first \in 1..Len(MonthStart), NEW last \in first..(Len(MonthStart) - 1),
           NEW f \in [first..last -> Int], \A k \in first..last : f[k] = S!MonthTotal(ivs, k).value,
           NEW sum, SumsUp(sum, f, first..last)
    PROVE  sum[first..last] = Level(ivs, MonthStart[last + 1]) - Level(ivs, MonthStart[first])
<1> DEFINE c == [k \in first..(last + 1) |-> Level(ivs, MonthStart[k])]
<1>1. first \in Int /\ last \in Int /\ Len(MonthStart) \in Nat /\ first <= last /\ first <= last + 1
  BY Calendar
<1>2. /\ \A k \in first..last : k \in 1..(Len(MonthStart) - 1) /\ k \in first..(last + 1) /\ k + 1 \in first..(last + 1)
      /\ \A k \in first..(last + 1) : k = last + 1 \/ k \in first..last
  BY <1>1
<1>3. \A k \in first..last : f[k] = Level(ivs, MonthStart[k + 1]) - Level(ivs, MonthStart[k])
                             /\ Level(ivs, MonthStart[k]) \in Int /\ Level(ivs, MonthStart[k + 1]) \in Int
  BY <1>2, MonthRises
<1>4. last \in first..last
  BY <1>1
<1>5. \A k \in first..(last + 1) : Level(ivs, MonthStart[k]) \in Int
  BY <1>2, <1>3, <1>4
<1>7. Grows(c, f, first, last)
  BY <1>2, <1>3, <1>5 DEF Grows
<1>8. c[last + 1] = Level(ivs, MonthStart[last + 1]) /\ c[first] = Level(ivs, MonthStart[first])
  BY <1>1
<1> HIDE DEF c
<1>9. sum[first..last] = c[last + 1] - c[first]
  BY <1>1, <1>7, SumOfSteps
<1> QED BY <1>8, <1>9

MonthsOf(iv, ms) == S!MapThenSumSet(LAMBDA k : S!MonthTotal({iv}, k).value, ms)

MonthsFor(iv, ms) == [k \in ms |-> S!MonthTotal({iv}, k).value]

(* So are the months of an interval: a sum over them.                      *)
LEMMA MonthsSum ==
    ASSUME NEW iv, NEW ms, IsFiniteSet(ms), MonthsFor(iv, ms) \in [ms -> Int]
    PROVE  \E sum : SumsUp(sum, MonthsFor(iv, ms), ms) /\ MonthsOf(iv, ms) = sum[ms]
<1> DEFINE f == MonthsFor(iv, ms)
           Eqn(g) == g = [s \in SUBSET ms |->
                            IF s = {} THEN 0
                            ELSE S!MonthTotal({iv}, CHOOSE r \in s : TRUE).value + g[s \ {CHOOSE r \in s : TRUE}]]
<1>1. \A g : Folded(g, f, ms) <=> Eqn(g)
  <2> SUFFICES ASSUME NEW g PROVE Folded(g, f, ms) <=> Eqn(g)
    OBVIOUS
  <2>1. ASSUME NEW s \in SUBSET ms
        PROVE  Folding(g, f, s) = IF s = {} THEN 0
                                  ELSE S!MonthTotal({iv}, CHOOSE r \in s : TRUE).value + g[s \ {CHOOSE r \in s : TRUE}]
    <3>1. s # {} => Chosen(s) \in ms /\ f[Chosen(s)] = S!MonthTotal({iv}, Chosen(s)).value
      BY ChosenIn DEF MonthsFor
    <3> QED BY <3>1 DEF Folding, Chosen
  <2> QED BY <2>1 DEF Folded
<1>2. PICK h : Eqn(h)
  <2>1. \E g : Folded(g, f, ms)
    <3> HIDE DEF Eqn, f
    <3> QED BY FoldExists DEF f
  <2> HIDE DEF Eqn
  <2> QED BY <1>1, <2>1
<1> DEFINE sum == CHOOSE g : Eqn(g)
<1>3. MonthsOf(iv, ms) = sum[ms]
  BY DEF MonthsOf, S!MapThenSumSet, S!MapThenFoldSet
<1> HIDE DEF Eqn, f
<1>4. Eqn(sum)  BY <1>2
<1> HIDE DEF sum
<1>5. SumsUp(sum, f, ms)  BY <1>1, <1>4, FoldSums DEF f
<1> QED BY <1>3, <1>5 DEF f

(* The shares of an interval, given to the months it spans, add up to it.  *)
LEMMA SharesAdd ==
    ASSUME StatisticsInv, NEW m, NEW since, NEW iv \in S!Known(m, since)
    PROVE  S!SharesAddUp(iv)
<1> DEFINE n == Len(MonthStart)
           ms == 1..(n - 1)
           f == MonthsFor(iv, ms)
<1>1. Measured(iv)
  BY KnownMeasured
<1>0. MonthStart[1] <= iv.from /\ iv.to < MonthStart[n]
  BY KnownMeasured
<1>2. n \in Nat /\ n >= 2 /\ MonthStart[1] \in Int /\ MonthStart[n] \in Int /\ iv.to < MonthStart[n]
  <2>2. MonthsPerYear + 1 \in DOMAIN MonthStart /\ MonthsPerYear \in Nat \ {0}
    BY StatisticsAssumption DEF StatisticsAssumption
  <2>3. n \in Nat /\ n >= 2  BY <2>2, Calendar
  <2>4. MonthStart[1] \in Int /\ MonthStart[n] \in Int  BY <2>3, Calendar
  <2> QED BY <1>0, <2>3, <2>4
<1>3. IsFiniteSet({iv}) /\ \A jv \in {iv} : Measured(jv)
  BY <1>1, FS_Singleton
<1>4. IsFiniteSet(ms)
  BY <1>2, FS_Interval
<1>5. f = [k \in 1..(n - 1) |-> S!MonthTotal({iv}, k).value]
  BY DEF MonthsFor
<1>6. 1 \in 1..n /\ n - 1 \in 1..(n - 1) /\ n - 1 + 1 = n
  BY <1>2
<1>7. f \in [ms -> Int]
  <2>1. \A k \in ms : f[k] \in Int
    <3> HIDE DEF f
    <3> SUFFICES ASSUME NEW k \in ms PROVE f[k] \in Int
      OBVIOUS
    <3>1. /\ Level({iv}, MonthStart[k]) \in Int /\ Level({iv}, MonthStart[k + 1]) \in Int
          /\ S!MonthTotal({iv}, k).value = Level({iv}, MonthStart[k + 1]) - Level({iv}, MonthStart[k])
      BY <1>3, MonthRises
    <3> QED BY <1>5, <3>1
  <2> QED BY <1>5, <2>1
<1>8. PICK sum : SumsUp(sum, f, ms) /\ MonthsOf(iv, ms) = sum[ms]
  BY <1>4, <1>7, MonthsSum
<1>9. MonthsOf(iv, ms) = Level({iv}, MonthStart[n]) - Level({iv}, MonthStart[1])
  <2>1. sum[ms] = Level({iv}, MonthStart[n - 1 + 1]) - Level({iv}, MonthStart[1])
    <3> DEFINE one == {iv}  last == n - 1
    <3>1. f \in [1..last -> Int] /\ (\A k \in 1..last : f[k] = S!MonthTotal(one, k).value)
          /\ SumsUp(sum, f, 1..last) /\ ms = 1..last
      BY <1>5, <1>7, <1>8
    <3>2. IsFiniteSet(one) /\ (\A jv \in one : Measured(jv)) /\ 1 \in 1..Len(MonthStart)
          /\ last \in 1..(Len(MonthStart) - 1)
      BY <1>3, <1>6
    <3> HIDE DEF f, one, last, ms
    <3>3. sum[1..last] = Level(one, MonthStart[last + 1]) - Level(one, MonthStart[1])
      BY SMTT(30), <3>1, <3>2, MonthsRise
    <3> QED BY <3>1, <3>3 DEF one, last
  <2> QED BY <1>6, <1>8, <2>1
<1>10. ASSUME NEW t \in Int PROVE Level({iv}, t) = Rate(iv) * Clip(iv, t)
  <2>1. PICK s : SumsUp(s, Levels({iv}, t), {iv}) /\ Level({iv}, t) = s[{iv}]
    BY <1>3, LevelIs
  <2>2. s[{iv}] = Levels({iv}, t)[iv] + s[{iv} \ {iv}] /\ {iv} \ {iv} = {} /\ s[{}] = 0
    BY <2>1 DEF SumsUp
  <2>3. Levels({iv}, t) \in [{iv} -> Int]  BY <1>3, LevelIs
  <2>4. Levels({iv}, t)[iv] = Rate(iv) * Clip(iv, t) /\ Levels({iv}, t)[iv] \in Int
    BY <2>3 DEF Levels
  <2> DEFINE x == Levels({iv}, t)[iv]
  <2>5. s[{iv}] = x + 0 /\ x \in Int
    BY <2>2, <2>4
  <2>6. s[{iv}] = x
    <3> HIDE DEF x
    <3> QED BY <2>5
  <2> QED BY <2>1, <2>4, <2>6
<1>11. Clip(iv, MonthStart[n]) = iv.to /\ Clip(iv, MonthStart[1]) = iv.from
  <2> DEFINE first == MonthStart[1]  end == MonthStart[n]
  <2>1. first <= iv.from /\ iv.to < end /\ first \in Int /\ end \in Int  BY <1>0, <1>2
  <2>2. iv.from \in Int /\ iv.to \in Int /\ iv.from < iv.to  BY <1>1 DEF Measured
  <2> HIDE DEF first, end
  <2>3. Clip(iv, end) = iv.to  BY <2>1, <2>2 DEF Clip
  <2>4. Clip(iv, first) = iv.from  BY <2>1, <2>2 DEF Clip
  <2> QED BY <2>3, <2>4 DEF first, end
<1>12. iv.consumption = Rate(iv) * (iv.to - iv.from) /\ Rate(iv) \in Int /\ iv.from \in Int /\ iv.to \in Int
  BY <1>1, ShareIs DEF Measured
<1>13. \A i, j, k \in Int : i * (j - k) = i * j - i * k
  OBVIOUS
<1>14. MonthsOf(iv, ms) = iv.consumption
  <2>1. Level({iv}, MonthStart[n]) = Rate(iv) * iv.to /\ Level({iv}, MonthStart[1]) = Rate(iv) * iv.from
    BY <1>2, <1>10, <1>11
  <2>2. Rate(iv) * (iv.to - iv.from) = Rate(iv) * iv.to - Rate(iv) * iv.from
    BY <1>12, <1>13
  <2> QED BY <1>9, <1>12, <2>1, <2>2
<1> QED BY <1>14 DEF S!SharesAddUp, MonthsOf

ValuesOf(some) == S!MapThenSumSet(LAMBDA v : v.value, some)

Valued(some) == [v \in some |-> v.value]

(* What adds the values of a set of records is a sum over them.            *)
LEMMA ValuesSum ==
    ASSUME NEW some, IsFiniteSet(some), Valued(some) \in [some -> Int]
    PROVE  \E sum : SumsUp(sum, Valued(some), some) /\ ValuesOf(some) = sum[some]
<1> DEFINE f == Valued(some)
           Eqn(g) == g = [s \in SUBSET some |->
                            IF s = {} THEN 0
                            ELSE (CHOOSE r \in s : TRUE).value + g[s \ {CHOOSE r \in s : TRUE}]]
<1>1. \A g : Folded(g, f, some) <=> Eqn(g)
  <2> SUFFICES ASSUME NEW g PROVE Folded(g, f, some) <=> Eqn(g)
    OBVIOUS
  <2>1. ASSUME NEW s \in SUBSET some
        PROVE  Folding(g, f, s) = IF s = {} THEN 0
                                  ELSE (CHOOSE r \in s : TRUE).value + g[s \ {CHOOSE r \in s : TRUE}]
    <3>1. s # {} => Chosen(s) \in some /\ f[Chosen(s)] = Chosen(s).value
      BY ChosenIn DEF Valued
    <3> QED BY <3>1 DEF Folding, Chosen
  <2> QED BY <2>1 DEF Folded
<1>2. PICK h : Eqn(h)
  <2>1. \E g : Folded(g, f, some)
    <3> HIDE DEF Eqn, f
    <3> QED BY FoldExists DEF f
  <2> HIDE DEF Eqn
  <2> QED BY <1>1, <2>1
<1> DEFINE sum == CHOOSE g : Eqn(g)
<1>3. ValuesOf(some) = sum[some]
  BY DEF ValuesOf, S!MapThenSumSet, S!MapThenFoldSet
<1> HIDE DEF Eqn, f
<1>4. Eqn(sum)  BY <1>2
<1> HIDE DEF sum
<1>5. SumsUp(sum, f, some)  BY <1>1, <1>4, FoldSums DEF f
<1> QED BY <1>3, <1>5 DEF f

(* Where values are sums of parts that share nothing, None where there is  *)
(* no part, so is their total.                                             *)
SumOrNone(sum, P) == IF P = {} THEN None ELSE sum[P]

LEMMA TotalOfPieces ==
    ASSUME NEW P, IsFiniteSet(P), NEW f \in [P -> Int], NEW sum, SumsUp(sum, f, P),
           NEW X, IsFiniteSet(X), NEW piece \in [X -> SUBSET P], Apart(piece, X),
           \A v \in X : v.value = SumOrNone(sum, piece[v])
    PROVE  S!Total(X) = SumOrNone(sum, Whole(piece, X))
<1> DEFINE some == {v \in X : v.value # None}
           part == [v \in some |-> piece[v]]
<1>1. None \notin Int /\ \A s \in SUBSET P : sum[s] \in Int
  BY StatisticsAssumption DEF StatisticsAssumption, SumsUp
<1>2. \A v \in X : v \in some <=> piece[v] # {}
  BY <1>1 DEF SumOrNone
<1>3. \A v \in some : v.value = sum[part[v]] /\ part[v] \in SUBSET P /\ v.value \in Int
  BY <1>1, <1>2 DEF SumOrNone
<1>4. some \in SUBSET X /\ IsFiniteSet(some)
  BY FS_Subset
<1>5. part \in [some -> SUBSET P] /\ Apart(part, some)
  BY <1>3, <1>4 DEF Apart
<1>6. Whole(part, some) = Whole(piece, X)
  <2>1. \A x : x \in Whole(part, some) <=> \E v \in some : x \in piece[v]
    BY DEF Whole
  <2>2. \A x : x \in Whole(piece, X) <=> \E v \in X : x \in piece[v]
    BY DEF Whole
  <2>3. \A x : x \in Whole(part, some) <=> x \in Whole(piece, X)
    <3> HIDE DEF some, part
    <3> QED BY <1>2, <1>4, <2>1, <2>2
  <2> HIDE DEF some, part
  <2> QED BY <2>3
<1>7. some = {} <=> Whole(piece, X) = {}
  <2>1. \A v \in some : \E x \in piece[v] : TRUE  BY <1>2
  <2>2. \A x : x \in Whole(piece, X) <=> \E v \in X : x \in piece[v]
    BY DEF Whole
  <2> HIDE DEF some
  <2> QED BY <1>2, <1>4, <2>1, <2>2
<1>8. S!Total(X) = IF some = {} THEN None ELSE ValuesOf(some)
  BY DEF S!Total, ValuesOf
<1>9. Valued(some) \in [some -> Int] /\ Valued(some) = InPieces(sum, part, some)
  BY <1>3 DEF Valued, InPieces
<1> HIDE DEF some, part
<1>10. PICK total : SumsUp(total, Valued(some), some) /\ ValuesOf(some) = total[some]
  BY <1>4, <1>9, ValuesSum
<1>11. SumsUp(total, InPieces(sum, part, some), some)
  BY <1>9, <1>10
<1>12. total[some] = sum[Whole(part, some)]
  BY <1>4, <1>5, <1>11, SumOfPieces
<1> QED BY <1>6, <1>7, <1>8, <1>10, <1>12 DEF SumOrNone

(* The cells of a table that hold a number, its rows and its columns.      *)
ByMeter(M, v) == {[meter |-> m, value |-> v[m]] : m \in M}
ByMonth(K, w) == {[month |-> k, value |-> w[k]] : k \in K}

InRow(P, m)    == {p \in P : p[1] = m}
InColumn(P, k) == {p \in P : p[2] = k}
Cell(P, m, k)  == {p \in P : p = <<m, k>>}

(* A total of rows, of the cells of a column, of columns: what is summed.  *)
LEMMA TotalOfRows ==
    ASSUME NEW P, IsFiniteSet(P), NEW f \in [P -> Int], NEW sum, SumsUp(sum, f, P),
           NEW M, IsFiniteSet(M), \A p \in P : p[1] \in M,
           NEW v, \A m \in M : v[m] = SumOrNone(sum, InRow(P, m))
    PROVE  S!Total(ByMeter(M, v)) = SumOrNone(sum, P)
<1> DEFINE X == {[meter |-> m, value |-> v[m]] : m \in M}
           piece == [x \in X |-> InRow(P, x.meter)]
<1>1. IsFiniteSet(X)
  <2> DEFINE g == [m \in M |-> [meter |-> m, value |-> v[m]]]
  <2>1. g \in Surjection(M, X)
    BY DEF Surjection
  <2> QED BY <2>1, FS_Surjection
<1>2. \A x \in X : x.meter \in M /\ x = [meter |-> x.meter, value |-> v[x.meter]]
  OBVIOUS
<1>3. \A m \in M : \E x \in X : x.meter = m
  <2> SUFFICES ASSUME NEW m \in M PROVE \E x \in X : x.meter = m
    OBVIOUS
  <2>1. [meter |-> m, value |-> v[m]] \in X  OBVIOUS
  <2> QED BY <2>1
<1>4. \A x \in X : x.value = SumOrNone(sum, piece[x])
  BY <1>2
<1>5. piece \in [X -> SUBSET P]
  BY DEF InRow
<1>6. Apart(piece, X)
  <2> SUFFICES ASSUME NEW x \in X, NEW y \in X, x # y PROVE piece[x] \intersect piece[y] = {}
    BY DEF Apart
  <2>1. x.meter # y.meter  BY <1>2
  <2> QED BY <2>1 DEF InRow
<1>7. Whole(piece, X) = P
  <2>1. \A p : p \in Whole(piece, X) <=> \E x \in X : p \in P /\ p[1] = x.meter
    BY InWhole DEF InRow
  <2> HIDE DEF X, piece
  <2> QED BY <1>3, <2>1
<1> HIDE DEF X, piece
<1>8. S!Total(X) = SumOrNone(sum, Whole(piece, X))
  BY <1>1, <1>4, <1>5, <1>6, TotalOfPieces
<1> QED BY <1>7, <1>8 DEF X, ByMeter

LEMMA TotalOfCells ==
    ASSUME NEW P, IsFiniteSet(P), NEW f \in [P -> Int], NEW sum, SumsUp(sum, f, P),
           NEW M, IsFiniteSet(M), \A p \in P : p[1] \in M /\ p = <<p[1], p[2]>>, NEW k,
           NEW v, \A m \in M : v[m] = IF <<m, k>> \in P THEN f[<<m, k>>] ELSE None
    PROVE  S!Total(ByMeter(M, v)) = SumOrNone(sum, InColumn(P, k))
<1> DEFINE Q == InColumn(P, k)
           g == [q \in Q |-> f[q]]
           part == [s \in SUBSET Q |-> sum[s]]
<1>1. Q \in SUBSET P /\ IsFiniteSet(Q) /\ \A q \in Q : q[1] \in M
  BY FS_Subset DEF InColumn
<1>2. g \in [Q -> Int] /\ SumsUp(part, g, Q)
  BY <1>1 DEF SumsUp
<1>3. ASSUME NEW m \in M PROVE v[m] = SumOrNone(part, InRow(Q, m))
  <2>1. CASE <<m, k>> \in P
    <3>1. InRow(Q, m) = {<<m, k>>}
      BY <2>1 DEF InRow, InColumn
    <3>2. <<m, k>> \in Q /\ {<<m, k>>} \in SUBSET Q
      BY <2>1 DEF InColumn
    <3>3. part[{<<m, k>>}] = g[<<m, k>>] + part[{}] /\ part[{}] = 0 /\ g[<<m, k>>] \in Int
      <4> HIDE DEF g, part, Q
      <4>1. {<<m, k>>} \ {<<m, k>>} = {}  OBVIOUS
      <4> QED BY <1>2, <3>2, <4>1 DEF SumsUp
    <3>4. g[<<m, k>>] = f[<<m, k>>]  BY <3>2
    <3> HIDE DEF g, part, Q
    <3>5. part[{<<m, k>>}] = f[<<m, k>>]  BY <3>3, <3>4
    <3> QED BY <2>1, <3>1, <3>5 DEF SumOrNone
  <2>2. CASE <<m, k>> \notin P
    <3>1. InRow(Q, m) = {}
      BY <2>2 DEF InRow, InColumn
    <3> QED BY <2>2, <3>1 DEF SumOrNone
  <2> QED BY <2>1, <2>2
<1>4. part[Q] = sum[Q]
  BY <1>1
<1> HIDE DEF Q, g, part
<1>5. S!Total(ByMeter(M, v)) = SumOrNone(part, Q)
  BY <1>1, <1>2, <1>3, TotalOfRows
<1> QED BY <1>4, <1>5 DEF Q, SumOrNone

LEMMA TotalOfColumns ==
    ASSUME NEW P, IsFiniteSet(P), NEW f \in [P -> Int], NEW sum, SumsUp(sum, f, P),
           NEW K, IsFiniteSet(K), \A p \in P : p[2] \in K,
           NEW w, \A k \in K : w[k] = SumOrNone(sum, InColumn(P, k))
    PROVE  S!Total(ByMonth(K, w)) = SumOrNone(sum, P)
<1> DEFINE X == {[month |-> k, value |-> w[k]] : k \in K}
           piece == [x \in X |-> InColumn(P, x.month)]
<1>1. IsFiniteSet(X)
  <2> DEFINE g == [k \in K |-> [month |-> k, value |-> w[k]]]
  <2>1. g \in Surjection(K, X)
    BY DEF Surjection
  <2> QED BY <2>1, FS_Surjection
<1>2. \A x \in X : x.month \in K /\ x = [month |-> x.month, value |-> w[x.month]]
  OBVIOUS
<1>3. \A k \in K : \E x \in X : x.month = k
  <2> SUFFICES ASSUME NEW k \in K PROVE \E x \in X : x.month = k
    OBVIOUS
  <2>1. [month |-> k, value |-> w[k]] \in X  OBVIOUS
  <2> QED BY <2>1
<1>4. \A x \in X : x.value = SumOrNone(sum, piece[x])
  BY <1>2
<1>5. piece \in [X -> SUBSET P]
  BY DEF InColumn
<1>6. Apart(piece, X)
  <2> SUFFICES ASSUME NEW x \in X, NEW y \in X, x # y PROVE piece[x] \intersect piece[y] = {}
    BY DEF Apart
  <2>1. x.month # y.month  BY <1>2
  <2> QED BY <2>1 DEF InColumn
<1>7. Whole(piece, X) = P
  <2>1. \A p : p \in Whole(piece, X) <=> \E x \in X : p \in P /\ p[2] = x.month
    BY InWhole DEF InColumn
  <2> HIDE DEF X, piece
  <2> QED BY <1>3, <2>1
<1> HIDE DEF X, piece
<1>8. S!Total(X) = SumOrNone(sum, Whole(piece, X))
  BY <1>1, <1>4, <1>5, <1>6, TotalOfPieces
<1> QED BY <1>7, <1>8 DEF X, ByMonth

(* The year the clock is in begins with a month the calendar has, no later *)
(* than the month of the clock and at most a year before its end.          *)
LEMMA YearIs ==
    ASSUME StatisticsInv, NEW x, x = S!MonthOf(clock), NEW y, y = S!ThisYear
    PROVE  /\ x \in 1..(Len(MonthStart) - 1) /\ y \in 1..(Len(MonthStart) - 1)
           /\ MonthStart[x] <= clock /\ clock < MonthStart[x + 1] /\ clock \in Int
           /\ MonthsPerYear + 1 <= y /\ y <= x /\ x <= y + MonthsPerYear - 1
           /\ MonthsPerYear \in Nat \ {0} /\ Months \in Nat \ {0}
           /\ S!YearStart = MonthStart[y] /\ MonthStart[y] \in Int /\ MonthStart[y - MonthsPerYear] \in Int
           /\ S!YearWindow = MonthStart[y - MonthsPerYear] - 2
<1> DEFINE p == MonthsPerYear
           r == (x - 1) % p
           q == (x - 1) \div p
<1>1. /\ clock \in FirstNow..LastNow /\ FirstNow \in Int /\ LastNow \in Int /\ p \in Nat \ {0}
      /\ Months \in DOMAIN MonthStart /\ p + 1 \in DOMAIN MonthStart /\ MonthStart[p + 1] <= FirstNow
  BY StatisticsAssumption DEF StatisticsInv, StatisticsAssumption
<1>2. clock \in Int /\ FirstNow <= clock
  BY <1>1
<1>3. x \in Months..(Len(MonthStart) - 1) /\ MonthStart[x] <= clock /\ clock < MonthStart[x + 1]
  BY <1>1, MonthOfIs
<1>4. Months \in 1..Len(MonthStart) /\ p + 1 \in 1..Len(MonthStart) /\ Len(MonthStart) \in Nat
  BY <1>1, Calendar
<1>5. x \in 1..(Len(MonthStart) - 1)
  BY <1>3, <1>4
<1>6. p + 1 <= x
  <2> SUFFICES ASSUME x < p + 1 PROVE FALSE
    BY <1>1, <1>5
  <2>1. x + 1 \in 1..Len(MonthStart) /\ x + 1 <= p + 1
    BY <1>1, <1>4, <1>5
  <2>2. x + 1 = p + 1 \/ MonthStart[x + 1] < MonthStart[p + 1]
    BY <1>1, <1>4, <2>1, Calendar
  <2>3. MonthStart[x + 1] \in Int /\ MonthStart[p + 1] \in Int
    BY <1>4, <2>1, Calendar
  <2> QED BY <1>1, <1>2, <1>3, <2>2, <2>3
<1>7. r \in Int /\ q \in Int /\ x - 1 = p * q + r /\ 0 <= r /\ r < p
  <2>1. x - 1 \in Int  BY <1>5
  <2> HIDE DEF p
  <2> QED BY <1>1, <2>1, DivMod DEF r, q
<1>8. q >= 1
  <2> SUFFICES ASSUME q <= 0 PROVE FALSE
    BY <1>7
  <2>1. \A i, j \in Int : i <= j => p * i <= p * j
    <3> HIDE DEF p
    <3> QED BY <1>1
  <2>2. p * q <= p * 0 /\ p * 0 = 0 /\ p * q \in Int
    <3> HIDE DEF p, q
    <3> QED BY <1>1, <1>7, <2>1
  <2> HIDE DEF p, q, r
  <2> QED BY <1>1, <1>5, <1>6, <1>7, <2>2
<1>9. p * q >= p /\ p * q \in Int
  <2> HIDE DEF p, q, r
  <2>1. \A i, j \in Int : i <= j => p * i <= p * j
    BY <1>1
  <2>2. p * 1 = p  BY <1>1
  <2> QED BY <1>1, <1>7, <1>8, <2>1, <2>2
<1>10. y = x - r
  BY DEF S!ThisYear, S!January
<1> HIDE DEF r, q
<1>11. y \in Int /\ p + 1 <= y /\ y <= x /\ x <= y + p - 1
  <2> DEFINE pq == p * q
  <2>1. x - 1 = pq + r /\ pq >= p /\ pq \in Int  BY <1>7, <1>9
  <2> HIDE DEF pq, p
  <2> QED BY SMTT(30), <1>1, <1>5, <1>7, <1>10, <2>1
<1>12. y \in 1..(Len(MonthStart) - 1) /\ y - p \in 1..Len(MonthStart)
  BY <1>1, <1>4, <1>5, <1>11
<1>13. MonthStart[y] \in Int /\ MonthStart[y - p] \in Int
  BY <1>4, <1>12, Calendar
<1>14. S!YearStart = MonthStart[y]
  BY DEF S!YearStart
<1>15. S!YearWindow = clock - (clock - MonthStart[y - p] + 2)
  BY DEF S!YearWindow
<1>16. Months \in Nat \ {0}
  BY <1>4
<1> QED BY SMTT(30), <1>1, <1>2, <1>3, <1>5, <1>11, <1>12, <1>13, <1>14, <1>15, <1>16

(* Months are no longer than the longest. *)
LEMMA MonthsBound ==
    ASSUME NEW k \in 1..Len(MonthStart), NEW l \in k..Len(MonthStart)
    PROVE  /\ MonthStart[k] \in Int /\ MonthStart[l] \in Int
           /\ MonthStart[l] - MonthStart[k] <= (l - k) * LongestMonth
<1> DEFINE Holds == {n \in 0..(l - k) : MonthStart[k + n] - MonthStart[k] <= n * LongestMonth}
<1>1. Len(MonthStart) \in Nat /\ k \in Int /\ l \in Int /\ k <= l /\ l - k \in Nat /\ LongestMonth \in Nat
  BY Calendar, StatisticsAssumption DEF StatisticsAssumption
<1>2. MonthStart[k] \in Int /\ MonthStart[l] \in Int
  BY <1>1, Calendar
<1>3. 0 \in Holds
  <2>1. k + 0 = k /\ 0 * LongestMonth = 0 /\ 0 \in 0..(l - k)  BY <1>1
  <2> QED BY <1>2, <2>1
<1>4. ASSUME NEW n \in 1..(l - k), n - 1 \in Holds PROVE n \in Holds
  <2>1. k + n \in 1..Len(MonthStart) /\ k + (n - 1) \in 1..(Len(MonthStart) - 1) /\ k + (n - 1) + 1 = k + n
        /\ k + (n - 1) \in 1..Len(MonthStart) /\ n \in 0..(l - k)
    BY <1>1
  <2>2. MonthStart[k + n] \in Int /\ MonthStart[k + (n - 1)] \in Int
    BY <2>1, Calendar
  <2>3. MonthStart[k + n] - MonthStart[k + (n - 1)] <= LongestMonth
    BY <2>1, StatisticsAssumption DEF StatisticsAssumption
  <2>4. MonthStart[k + (n - 1)] - MonthStart[k] <= (n - 1) * LongestMonth
    BY <1>4
  <2>5. (n - 1) * LongestMonth = n * LongestMonth - LongestMonth /\ n * LongestMonth \in Int
    BY <1>1
  <2>6. MonthStart[k + n] - MonthStart[k] <= n * LongestMonth
    BY SMTT(30), <1>1, <1>2, <2>2, <2>3, <2>4, <2>5
  <2> QED BY <2>1, <2>6
<1>5. l - k \in Holds
  <2> HIDE DEF Holds
  <2>1. \A n \in 1..(l - k) : n - 1 \in Holds => n \in Holds  BY <1>4
  <2>2. 0..(l - k) \subseteq Holds  BY <1>1, <1>3, <2>1, Induction
  <2> QED BY <1>1, <2>2
<1>6. k + (l - k) = l  BY <1>1
<1> QED BY <1>2, <1>5, <1>6

(* The month view that shows a whole year loads what the year view does.   *)
LEMMA WindowsNest ==
    ASSUME StatisticsInv, S!ThisYear \in S!Shown
    PROVE  S!MonthWindow \in Int /\ S!YearWindow \in Int /\ S!MonthWindow <= S!YearWindow
<1>1. PICK x, y : x = S!MonthOf(clock) /\ y = S!ThisYear  OBVIOUS
<1> DEFINE p == MonthsPerYear
           z == y - p
           a == MonthStart[z]
           e == MonthStart[x + 1]
<1>2. /\ x \in 1..(Len(MonthStart) - 1) /\ y \in 1..(Len(MonthStart) - 1)
      /\ clock < e /\ clock \in Int
      /\ p + 1 <= y /\ y <= x /\ p \in Nat \ {0} /\ Months \in Nat \ {0}
      /\ S!YearWindow = a - 2
  BY <1>1, YearIs
<1>3. y >= x - Months + 1
  <2>1. y \in (x - Months + 1)..x  BY <1>1 DEF S!Shown
  <2> QED BY <1>2, <2>1
<1>4. LongestMonth \in Nat /\ Len(MonthStart) \in Nat
  BY Calendar, StatisticsAssumption DEF StatisticsAssumption
<1>5. z \in 1..Len(MonthStart) /\ x + 1 \in z..Len(MonthStart) /\ x + 1 - z <= Months + p /\ x + 1 - z \in Int
  BY <1>2, <1>3, <1>4
<1>6. e - a <= (x + 1 - z) * LongestMonth /\ e \in Int /\ a \in Int
  <2> DEFINE l == x + 1
  <2>1. z \in 1..Len(MonthStart) /\ l \in z..Len(MonthStart)  BY <1>5
  <2>3. e = MonthStart[l] /\ a = MonthStart[z] /\ x + 1 - z = l - z
    BY <1>2
  <2> HIDE DEF l, z
  <2>2. MonthStart[z] \in Int /\ MonthStart[l] \in Int /\ MonthStart[l] - MonthStart[z] <= (l - z) * LongestMonth
    BY <2>1, MonthsBound
  <2> HIDE DEF e, a
  <2> QED BY <2>2, <2>3
<1> HIDE DEF z, p, a, e
<1>7. \A i, j \in Int : i <= j => i * LongestMonth <= j * LongestMonth /\ i * LongestMonth \in Int /\ j * LongestMonth \in Int
  BY <1>4
<1>8. (x + 1 - z) * LongestMonth <= (Months + p) * LongestMonth /\ (x + 1 - z) * LongestMonth \in Int
      /\ (Months + p) * LongestMonth \in Int
  <2>1. Months + p \in Int  BY <1>2
  <2> QED BY <1>5, <1>7, <2>1
<1>9. S!MonthWindow = clock - ((Months + p) * LongestMonth + 1)
  BY DEF S!MonthWindow, p
<1> DEFINE wide == (Months + p) * LongestMonth
           span == (x + 1 - z) * LongestMonth
<1>10. wide \in Int /\ span \in Int /\ span <= wide /\ e - a <= span /\ S!MonthWindow = clock - (wide + 1)
  BY <1>6, <1>8, <1>9
<1> HIDE DEF wide, span
<1> QED BY <1>2, <1>6, <1>10

(* What a window loads is what begins in it. *)
LEMMA KnownLater ==
    ASSUME StatisticsInv, NEW m, NEW w \in Int, NEW iv
    PROVE  iv \in S!Known(m, w) <=> iv \in S!Known(m, 0) /\ iv.from >= w
<1>1. \A i \in S!ReadingIds : counted[i] # None => counted[i].at \in Int /\ counted[i].at >= 0
  <2>1. Instants \subseteq Nat  BY StatisticsAssumption DEF StatisticsAssumption
  <2> QED BY <2>1 DEF StatisticsInv
<1>2. \A i : i \in Points(counted, m, 0) <=> i \in S!ReadingIds /\ counted[i] # None /\ counted[i].meter = m
  BY <1>1 DEF Points
<1>3. \A i : i \in Points(counted, m, w) <=> i \in Points(counted, m, 0) /\ counted[i].at >= w
  BY <1>2 DEF Points
<1>4. ASSUME NEW i \in S!ReadingIds, NEW j \in S!ReadingIds
      PROVE  Linked(counted, m, w, i, j) <=> Linked(counted, m, 0, i, j) /\ counted[i].at >= w
  <2>1. ASSUME Linked(counted, m, w, i, j) PROVE Linked(counted, m, 0, i, j) /\ counted[i].at >= w
    <3>1. ASSUME NEW k \in Points(counted, m, 0), Ahead(counted, i, k), Ahead(counted, k, j) PROVE FALSE
      <4>1. counted[i].at <= counted[k].at /\ counted[i].at >= w /\ counted[i].at \in Int /\ counted[k].at \in Int
        BY <1>1, <1>2, <1>3, <2>1, <3>1 DEF Ahead, Linked
      <4>2. k \in Points(counted, m, w)  BY <1>3, <4>1
      <4> QED BY <2>1, <3>1, <4>2 DEF Linked
    <3> QED BY <1>3, <2>1, <3>1 DEF Linked
  <2>2. ASSUME Linked(counted, m, 0, i, j), counted[i].at >= w PROVE Linked(counted, m, w, i, j)
    <3>1. counted[j].at >= w
      <4>1. counted[i].at \in Int /\ counted[j].at \in Int /\ counted[i].at < counted[j].at
        BY <1>1, <1>2, <2>2 DEF Linked
      <4> QED BY <2>2, <4>1
    <3> QED BY <1>3, <2>2, <3>1 DEF Linked
  <2> QED BY <2>1, <2>2
<1>5. \A i, j : Stretch(counted, i, j).from = counted[i].at
  BY DEF Stretch
<1> QED BY <1>4, <1>5, KnownIs

(* A month has data if an interval overlaps it.                            *)
LEMMA DataWhereHit ==
    ASSUME NEW ivs, IsFiniteSet(ivs), \A iv \in ivs : Measured(iv), NEW k \in 1..(Len(MonthStart) - 1)
    PROVE  /\ S!MonthTotal(ivs, k).covered > 0 <=> Hits(ivs, k) # {}
           /\ S!MonthState(k, S!MonthTotal(ivs, k)) = "no_data" <=> Hits(ivs, k) = {}
           /\ Hits(ivs, k) = {} => S!MonthTotal(ivs, k).value = 0
<1> DEFINE hits == Hits(ivs, k)
           a == MonthStart[k]
           e == MonthStart[k + 1]
           f == Overlaps(hits, k)
<1>1. a \in Int /\ e \in Int /\ a < e
  BY Calendar
<1>2. IsFiniteSet(hits) /\ \A iv \in hits : iv \in ivs /\ S!Overlap(iv, a, e) > 0
  BY FS_Subset DEF Hits
<1>3. \A iv \in hits : S!Overlap(iv, a, e) \in Int
  <2> SUFFICES ASSUME NEW iv \in hits PROVE S!Overlap(iv, a, e) \in Int
    OBVIOUS
  <2>1. iv.from \in Int /\ iv.to \in Int  BY <1>2 DEF Measured
  <2> HIDE DEF a, e, hits
  <2> QED BY <1>1, <2>1, OverlapIs
<1>4. f \in [hits -> Int] /\ \A iv \in hits : 1 <= f[iv]
  BY <1>2, <1>3 DEF Overlaps
<1>5. PICK sum : SumsUp(sum, f, hits) /\ CoveredOf(hits, k) = sum[hits]
  <2> HIDE DEF hits
  <2> QED BY <1>2, <1>4, CoveredSum
<1>6. S!MonthTotal(ivs, k).covered = sum[hits] /\ S!MonthTotal(ivs, k).value = SharesOf(hits, a, e)
  BY <1>5, MonthTotalIs DEF TotalOf, CoveredOf, SharesOf
<1> HIDE DEF hits, f, a, e
<1>7. Cardinality(hits) * 1 <= sum[hits] /\ Cardinality(hits) \in Nat /\ (hits # {} => Cardinality(hits) > 0)
  <2>1. Cardinality(hits) * 1 <= sum[hits]  BY <1>2, <1>4, <1>5, SumBounded
  <2>2. Cardinality(hits) \in Nat /\ (hits # {} => Cardinality(hits) # 0)
    BY <1>2, FS_CardinalityType, FS_EmptySet
  <2> QED BY <2>1, <2>2
<1>8. hits # {} => sum[hits] > 0
  <2>1. sum[hits] \in Int  BY <1>5 DEF SumsUp
  <2> QED BY <1>7, <2>1
<1>9. hits = {} => sum[hits] = 0
  BY <1>5 DEF SumsUp
<1>10. hits = {} => SharesOf(hits, a, e) = 0
  <2> SUFFICES ASSUME hits = {} PROVE SharesOf({}, a, e) = 0
    OBVIOUS
  <2>1. IsFiniteSet({}) /\ Shares({}, a, e) \in [{} -> Int]
    BY FS_EmptySet DEF Shares
  <2>2. PICK s : SumsUp(s, Shares({}, a, e), {}) /\ SharesOf({}, a, e) = s[{}]
    BY <2>1, SharesSum
  <2> QED BY <2>2 DEF SumsUp
<1>11. S!MonthState(k, S!MonthTotal(ivs, k)) = "no_data" <=> sum[hits] <= 0
  <2>1. sum[hits] \in Int  BY <1>5 DEF SumsUp
  <2> DEFINE total == S!MonthTotal(ivs, k)
  <2>2. total.covered \in Int /\ total.covered = sum[hits]  BY <1>6, <2>1
  <2> HIDE DEF total
  <2>3. S!MonthState(k, total) = "no_data" <=> total.covered <= 0
    BY <1>1, <2>2 DEF S!MonthState, a, e
  <2> QED BY <2>2, <2>3 DEF total
<1>12. S!MonthTotal(ivs, k).covered > 0 <=> hits # {}
  BY <1>6, <1>8, <1>9
<1>13. S!MonthState(k, S!MonthTotal(ivs, k)) = "no_data" <=> hits = {}
  <2>1. sum[hits] \in Int  BY <1>5 DEF SumsUp
  <2> QED BY <1>8, <1>9, <1>11, <2>1
<1>14. hits = {} => S!MonthTotal(ivs, k).value = 0
  BY <1>6, <1>10
<1> QED BY <1>12, <1>13, <1>14 DEF hits

(* A meter the views agree on. *)
Comparable(m) == S!YearLoaded(m) /\ S!NoneAhead(m)

(* The intervals of a meter that reach into the year.                      *)
YearOf(m) == {iv \in S!Known(m, S!YearWindow) : iv.to > S!YearStart}

Loaded(ivs, m, y, x) ==
    /\ IsFiniteSet(ivs) /\ \A iv \in ivs : Measured(iv) /\ MonthStart[y] < iv.to /\ iv.to <= clock
    /\ \A k \in y..(Len(MonthStart) - 1) :
          /\ Hits(S!Known(m, S!YearWindow), k) = Hits(ivs, k)
          /\ Hits(S!Known(m, S!MonthWindow), k) = Hits(ivs, k)
    /\ \A k \in (x + 1)..(Len(MonthStart) - 1) : Hits(ivs, k) = {}
    /\ ivs # {} => \E k \in y..x : Hits(ivs, k) # {}

(* Both views find the same intervals in the months of the year.           *)
LEMMA LoadedAlike ==
    ASSUME StatisticsInv, S!ThisYear \in S!Shown, NEW m, Comparable(m),
           NEW x, x = S!MonthOf(clock), NEW y, y = S!ThisYear
    PROVE  Loaded(YearOf(m), m, y, x)
<1> DEFINE long == S!Known(m, S!MonthWindow)
           short == S!Known(m, S!YearWindow)
           ivs == YearOf(m)
           n == Len(MonthStart)
<1>1. /\ x \in 1..(n - 1) /\ y \in 1..(n - 1) /\ clock < MonthStart[x + 1] /\ clock \in Int
      /\ y <= x /\ S!YearStart = MonthStart[y] /\ MonthStart[y] \in Int /\ n \in Nat
  BY YearIs, Calendar
<1>2. S!MonthWindow \in Int /\ S!YearWindow \in Int /\ S!MonthWindow <= S!YearWindow
  BY WindowsNest
<1>3. /\ \A iv : iv \in long <=> iv \in S!Known(m, 0) /\ iv.from >= S!MonthWindow
      /\ \A iv : iv \in short <=> iv \in S!Known(m, 0) /\ iv.from >= S!YearWindow
  BY <1>2, KnownLater
<1>4. /\ \A iv \in long : Measured(iv) /\ iv.to <= clock
      /\ \A iv \in short : Measured(iv) /\ iv.to <= clock
      /\ IsFiniteSet(short)
  <2>1. (\A iv \in long : Measured(iv)) /\ (\A iv \in short : Measured(iv)) /\ IsFiniteSet(short)
    BY KnownMeasured DEF Disjoint
  <2>2. \A iv \in S!Known(m, 0) : iv.to <= clock
    BY DEF Comparable, S!NoneAhead
  <2> HIDE DEF long, short
  <2> QED BY <1>3, <2>1, <2>2
<1>5. ivs \subseteq short /\ IsFiniteSet(ivs) /\ \A iv : iv \in ivs <=> iv \in short /\ MonthStart[y] < iv.to
  <2>1. \A iv \in short : iv.to > MonthStart[y] <=> MonthStart[y] < iv.to
    BY <1>1, <1>4 DEF Measured
  <2> QED BY <1>1, <1>4, <2>1, FS_Subset DEF YearOf
<1>6. \A iv : iv \in ivs <=> iv \in long /\ MonthStart[y] < iv.to
  <2>1. ASSUME NEW iv \in short PROVE iv \in long
    <3>1. iv.from \in Int  BY <1>4 DEF Measured
    <3> HIDE DEF long, short
    <3> QED BY <1>2, <1>3, <3>1
  <2>2. ASSUME NEW iv \in long, MonthStart[y] < iv.to PROVE iv \in short
    <3>1. iv \in S!Known(m, 0) /\ iv.to > S!YearStart
      <4>1. iv \in S!Known(m, 0)  BY <1>3
      <4>2. iv.to \in Int  BY <1>4 DEF Measured
      <4> QED BY <1>1, <2>2, <4>1, <4>2
    <3>2. iv.from >= S!YearWindow  BY <3>1 DEF Comparable, S!YearLoaded
    <3> QED BY <1>3, <3>1, <3>2
  <2> HIDE DEF long, short, ivs
  <2> QED BY <1>5, <2>1, <2>2
<1>7. \A iv \in ivs : Measured(iv) /\ MonthStart[y] < iv.to /\ iv.to <= clock
  BY <1>4, <1>5
<1> HIDE DEF long, short, ivs
<1>8. \A k \in y..(n - 1) : k \in 1..(n - 1) /\ MonthStart[k] \in Int /\ MonthStart[k + 1] \in Int /\ MonthStart[y] <= MonthStart[k]
  <2> SUFFICES ASSUME NEW k \in y..(n - 1)
               PROVE  k \in 1..(n - 1) /\ MonthStart[k] \in Int /\ MonthStart[k + 1] \in Int /\ MonthStart[y] <= MonthStart[k]
    OBVIOUS
  <2>1. k \in 1..(n - 1) /\ k \in 1..n /\ k + 1 \in 1..n /\ y \in 1..n /\ (k = y \/ y < k)
    BY <1>1
  <2> QED BY <1>1, <2>1, Calendar
<1>9. ASSUME NEW k \in y..(n - 1)
      PROVE  Hits(short, k) = Hits(ivs, k) /\ Hits(long, k) = Hits(ivs, k)
  <2>1. /\ \A iv \in short : iv \in Hits(short, k) <=> iv.from < MonthStart[k + 1] /\ MonthStart[k] < iv.to
        /\ \A iv \in long : iv \in Hits(long, k) <=> iv.from < MonthStart[k + 1] /\ MonthStart[k] < iv.to
        /\ \A iv \in ivs : iv \in Hits(ivs, k) <=> iv.from < MonthStart[k + 1] /\ MonthStart[k] < iv.to
    BY <1>4, <1>7, <1>8, HitsOverlap DEF long, short
  <2>2. Hits(short, k) \subseteq short /\ Hits(long, k) \subseteq long /\ Hits(ivs, k) \subseteq ivs
    BY DEF Hits
  <2>3. \A iv : (iv \in short \/ iv \in long) /\ MonthStart[k] < iv.to => MonthStart[y] < iv.to
    <3> SUFFICES ASSUME NEW iv, iv \in short \/ iv \in long, MonthStart[k] < iv.to PROVE MonthStart[y] < iv.to
      OBVIOUS
    <3>1. iv.to \in Int  BY <1>4 DEF Measured, long, short
    <3> QED BY <1>1, <1>8, <3>1
  <2>4. \A iv : iv \in Hits(short, k) <=> iv \in Hits(ivs, k)
    BY <1>5, <2>1, <2>2, <2>3
  <2>5. \A iv : iv \in Hits(long, k) <=> iv \in Hits(ivs, k)
    BY <1>6, <2>1, <2>2, <2>3
  <2>6. Hits(short, k) = Hits(ivs, k)  BY <2>4, Zenon
  <2>7. Hits(long, k) = Hits(ivs, k)  BY <2>5, Zenon
  <2> QED BY <2>6, <2>7
<1>10. ASSUME NEW k \in (x + 1)..(n - 1) PROVE Hits(ivs, k) = {}
  <2>1. k \in 1..(n - 1) /\ MonthStart[x + 1] \in Int /\ MonthStart[k] \in Int /\ MonthStart[x + 1] <= MonthStart[k]
    <3>1. k \in 1..n /\ x + 1 \in 1..n /\ (k = x + 1 \/ x + 1 < k) /\ k \in 1..(n - 1)  BY <1>1
    <3> QED BY <3>1, Calendar
  <2>2. \A iv \in ivs : ~(MonthStart[k] < iv.to)
    <3> SUFFICES ASSUME NEW iv \in ivs PROVE ~(MonthStart[k] < iv.to)
      OBVIOUS
    <3>1. iv.to \in Int /\ iv.to <= clock  BY <1>7 DEF Measured
    <3> QED BY <1>1, <2>1, <3>1
  <2>3. \A iv \in ivs : iv \in Hits(ivs, k) <=> iv.from < MonthStart[k + 1] /\ MonthStart[k] < iv.to
    BY <1>7, <2>1, HitsOverlap
  <2>4. Hits(ivs, k) \subseteq ivs  BY DEF Hits
  <2> QED BY <2>2, <2>3, <2>4
<1>11. ASSUME NEW iv \in ivs PROVE \E k \in y..x : Hits(ivs, k) # {}
  <2> SUFFICES ASSUME \A k \in y..x : Hits(ivs, k) = {} PROVE FALSE
    OBVIOUS
  <2> DEFINE len == x + 1 - y
             Before == {i \in 0..len : MonthStart[y + i] < iv.to}
  <2>1. len \in Nat /\ y + len = x + 1 /\ y \in Int  BY <1>1
  <2>2. iv.from \in Int /\ iv.to \in Int /\ iv.to <= clock /\ MonthStart[y] < iv.to  BY <1>7 DEF Measured
  <2> HIDE DEF len
  <2>3. 0 \in Before
    <3>1. y + 0 = y  BY <2>1
    <3> QED BY <2>1, <2>2, <3>1
  <2>4. ASSUME NEW i \in 1..len, i - 1 \in Before PROVE i \in Before
    <3> DEFINE k == y + (i - 1)
    <3>1. k \in y..x /\ k \in y..(n - 1) /\ k + 1 = y + i /\ i \in 0..len
      BY <1>1, <2>1
    <3>2. MonthStart[k] < iv.to  BY <2>4
    <3> HIDE DEF k
    <3>3. ~(iv.from < MonthStart[k + 1])
      <4>1. iv \in Hits(ivs, k) <=> iv.from < MonthStart[k + 1] /\ MonthStart[k] < iv.to
        BY <1>7, <1>8, <3>1, HitsOverlap
      <4> QED BY <3>1, <3>2, <4>1
    <3>4. MonthStart[k + 1] \in Int /\ iv.from < iv.to  BY <1>7, <1>8, <3>1 DEF Measured
    <3>5. MonthStart[k + 1] < iv.to  BY <2>2, <3>3, <3>4
    <3> QED BY <3>1, <3>5
  <2>5. len \in Before
    <3> HIDE DEF Before
    <3>1. \A i \in 1..len : i - 1 \in Before => i \in Before  BY <2>4
    <3>2. 0..len \subseteq Before  BY <2>1, <2>3, <3>1, Induction
    <3> QED BY <2>1, <3>2
  <2>6. MonthStart[x + 1] < iv.to  BY <2>1, <2>5
  <2>7. MonthStart[x + 1] \in Int
    <3>1. x + 1 \in 1..n  BY <1>1
    <3> QED BY <3>1, Calendar
  <2> QED BY <1>1, <2>2, <2>6, <2>7
<1>12. ivs # {} => \E k \in y..x : Hits(ivs, k) # {}
  BY <1>11
<1> QED BY <1>5, <1>7, <1>9, <1>10, <1>12 DEF Loaded, long, short, ivs

(* What is as large as all the rest is the largest.                        *)
LEMMA LargestIs ==
    ASSUME NEW T, NEW t \in T, T \subseteq Int, \A u \in T : u <= t
    PROVE  S!Max(T) = t
<1>1. \A u \in T : t >= u  OBVIOUS
<1>2. \A v \in T : (\A u \in T : v >= u) => v = t
  <2> SUFFICES ASSUME NEW v \in T, \A u \in T : v >= u PROVE v = t
    OBVIOUS
  <2>1. v >= t /\ v <= t /\ v \in Int /\ t \in Int  OBVIOUS
  <2> QED BY <2>1
<1> QED BY <1>1, <1>2 DEF S!Max

(* The year to date is what the level rises by since the year began. *)
LEMMA CurrentIs ==
    ASSUME StatisticsInv, S!ThisYear \in S!Shown, NEW m, Comparable(m),
           NEW x, x = S!MonthOf(clock), NEW y, y = S!ThisYear, NEW ivs, ivs = YearOf(m)
    PROVE  S!YearSummary(m).current =
              IF ivs = {} THEN None ELSE Level(ivs, MonthStart[x + 1]) - Level(ivs, MonthStart[y])
<1> DEFINE short == S!Known(m, S!YearWindow)
           ends == {iv.to : iv \in short}
           start == MonthStart[y]
           end == MonthStart[x + 1]
           cut == S!Min({clock, S!Max(ends)})
<1>1. /\ x \in 1..(Len(MonthStart) - 1) /\ y \in 1..(Len(MonthStart) - 1) /\ clock < end /\ clock \in Int
      /\ S!YearStart = start /\ start \in Int
  BY YearIs
<1>2. end \in Int
  BY <1>1, Calendar
<1>3. IsFiniteSet(short) /\ \A iv \in short : Measured(iv) /\ iv.to <= clock /\ iv.to \in Int
  <2>1. IsFiniteSet(short) /\ \A iv \in short : Measured(iv) /\ iv.to \in Int
    BY KnownMeasured DEF Disjoint, Measured
  <2>2. \A iv \in S!Known(m, 0) : iv.to <= clock
    BY DEF Comparable, S!NoneAhead
  <2>3. \A iv \in short : iv \in S!Known(m, 0)
    BY WindowsNest, KnownLater
  <2> HIDE DEF short
  <2> QED BY <2>1, <2>2, <2>3
<1>4. /\ IsFiniteSet(ivs) /\ ivs \subseteq short
      /\ \A iv \in ivs : Measured(iv) /\ start < iv.to /\ iv.to <= clock
      /\ \A iv \in short : iv \in ivs <=> iv.to > start
  BY <1>1, LoadedAlike DEF YearOf, Loaded
<1>5. LET year == [current  |-> S!InWindow(short, S!YearStart, cut),
                   previous |-> S!InWindow(short, MonthStart[S!ThisYear - MonthsPerYear], S!YearEarlier(cut))]
      IN  /\ short = {} => S!YearSummary(m) = S!NoYear
          /\ short # {} /\ cut <= S!YearStart /\ ~(cut > S!YearStart) => S!YearSummary(m) = S!NoYear
          /\ short # {} /\ cut > S!YearStart /\ ~(cut <= S!YearStart) => S!YearSummary(m) = year
  BY DEF S!YearSummary
<1>6. S!NoYear.current = None
  BY DEF S!NoYear
<1>7. CASE short = {}
  <2>1. ivs = {}  BY <1>4, <1>7
  <2>2. S!YearSummary(m) = S!NoYear  BY <1>5, <1>7
  <2> QED BY <1>6, <2>1, <2>2
<1>8. CASE short # {}
  <2>1. PICK last \in short : \A iv \in short : iv.to <= last.to
    <3> DEFINE g == [iv \in short |-> iv.to]
    <3>1. g \in [short -> Int] /\ \A iv \in short : g[iv] = iv.to  BY <1>3
    <3> HIDE DEF g, short
    <3>2. \E l \in short : \A iv \in short : g[iv] <= g[l]
      BY <1>3, <1>8, <3>1, SomethingIsLargest
    <3> QED BY <3>1, <3>2
  <2>2. S!Max(ends) = last.to
    <3>1. last.to \in ends /\ ends \subseteq Int /\ \A u \in ends : u <= last.to
      BY <1>3, <2>1
    <3> HIDE DEF ends
    <3> QED BY <3>1, LargestIs
  <2>3. last.to \in Int /\ last.to <= clock
    BY <1>3
  <2>4. cut = last.to
    <3>1. S!Min({clock, last.to}) = IF clock <= last.to THEN clock ELSE last.to
      BY <1>1, <2>3, LesserOfTwo
    <3> HIDE DEF ends
    <3> QED BY <1>1, <2>2, <2>3, <3>1
  <2> HIDE DEF short, ends, cut, start, end
  <2>5. CASE cut <= start
    <3>1. ivs = {}
      <4>1. \A iv \in short : ~(iv.to > start)  BY <1>1, <1>3, <2>1, <2>3, <2>4, <2>5
      <4> QED BY <1>4, <4>1
    <3>2. S!YearSummary(m) = S!NoYear
      <4>1. ~(cut > S!YearStart)  BY <1>1, <2>3, <2>4, <2>5
      <4> QED BY <1>1, <1>5, <1>8, <2>5, <4>1
    <3> QED BY <1>6, <3>1, <3>2
  <2>6. CASE cut > start
    <3>1. S!YearSummary(m).current = S!InWindow(short, start, cut)
      <4>1. ~(cut <= S!YearStart)  BY <1>1, <2>3, <2>4, <2>6
      <4> QED BY <1>1, <1>5, <1>8, <2>6, <4>1
    <3>2. S!InWindow(short, start, cut) =
             IF InReach(short, start, cut) = {} THEN None ELSE SharesOf(InReach(short, start, cut), start, cut)
      BY DEF S!InWindow, InReach, SharesOf
    <3>3. cut \in Int /\ start <= cut /\ cut <= end
      BY <1>1, <1>2, <2>3, <2>4, <2>6
    <3>4. \A iv \in short : S!Overlap(iv, start, cut) > 0 <=> iv \in ivs
      <4> SUFFICES ASSUME NEW iv \in short PROVE S!Overlap(iv, start, cut) > 0 <=> iv.to > start
        BY <1>4
      <4>1. iv.from \in Int /\ iv.to \in Int /\ iv.from < iv.to /\ iv.to <= cut
        BY <1>3, <2>1, <2>4 DEF Measured
      <4>2. S!Overlap(iv, start, cut) = (IF iv.to <= cut THEN iv.to ELSE cut) - (IF iv.from >= start THEN iv.from ELSE start)
        BY <1>1, <3>3, <4>1, OverlapIs
      <4> QED BY <1>1, <3>3, <4>1, <4>2
    <3>5. InReach(short, start, cut) = ivs /\ InReach(ivs, start, cut) = ivs
      BY <1>4, <3>4 DEF InReach
    <3>6. SharesOf(ivs, start, cut) = Level(ivs, cut) - Level(ivs, start)
      BY <1>1, <1>4, <3>3, <3>5, LevelRises
    <3>7. Level(ivs, cut) = Level(ivs, end)
      <4>1. \A iv \in ivs : Clip(iv, cut) = Clip(iv, end)
        <5> SUFFICES ASSUME NEW iv \in ivs PROVE Clip(iv, cut) = Clip(iv, end)
          OBVIOUS
        <5>1. iv.from \in Int /\ iv.to \in Int /\ iv.from < iv.to /\ iv.to <= cut
          BY <1>3, <1>4, <2>1, <2>4 DEF Measured
        <5> QED BY <1>2, <3>3, <5>1 DEF Clip
      <4>2. Levels(ivs, cut) = Levels(ivs, end)
        BY <4>1 DEF Levels
      <4> QED BY <4>2 DEF Level
    <3> QED BY <3>1, <3>2, <3>5, <3>6, <3>7 DEF start, end
  <2> QED BY <1>1, <2>3, <2>4, <2>5, <2>6
<1> QED BY <1>7, <1>8

(* The table of the year: a cell for each meter and month with data.       *)
Cells(M, own, y, x) == {p \in M \X (y..x) : Hits(own[p[1]], p[2]) # {}}

CellAmounts(P, own) == [p \in P |-> S!MonthTotal(own[p[1]], p[2]).value]

(* A row adds up to what the level of its meter rises by. *)
LEMMA RowAddsUp ==
    ASSUME NEW M, IsFiniteSet(M), NEW y \in 1..(Len(MonthStart) - 1), NEW x \in y..(Len(MonthStart) - 1),
           NEW own, \A m \in M : IsFiniteSet(own[m]) /\ \A iv \in own[m] : Measured(iv),
           NEW P, P = Cells(M, own, y, x)
    PROVE  /\ IsFiniteSet(P) /\ P \subseteq M \X (y..x) /\ CellAmounts(P, own) \in [P -> Int]
           /\ \A sum : SumsUp(sum, CellAmounts(P, own), P) =>
                 \A m \in M : sum[InRow(P, m)] = Level(own[m], MonthStart[x + 1]) - Level(own[m], MonthStart[y])
<1> DEFINE months == y..x
           f == CellAmounts(P, own)
<1>1. y \in Int /\ x \in Int /\ y <= x /\ Len(MonthStart) \in Nat /\ \A k \in months : k \in 1..(Len(MonthStart) - 1)
  BY Calendar
<1>2. IsFiniteSet(months)
  BY <1>1, FS_Interval
<1>3. P \subseteq M \X months
  BY DEF Cells
<1>4. IsFiniteSet(P)
  BY <1>2, <1>3, FS_Product, FS_Subset
<1>5. \A m \in M, k \in months : S!MonthTotal(own[m], k).value \in Int
  <2> SUFFICES ASSUME NEW m \in M, NEW k \in months PROVE S!MonthTotal(own[m], k).value \in Int
    OBVIOUS
  <2>1. k \in 1..(Len(MonthStart) - 1)  BY <1>1
  <2>2. /\ Level(own[m], MonthStart[k]) \in Int /\ Level(own[m], MonthStart[k + 1]) \in Int
        /\ S!MonthTotal(own[m], k).value = Level(own[m], MonthStart[k + 1]) - Level(own[m], MonthStart[k])
    BY <2>1, MonthRises
  <2> QED BY <2>2
<1>6. f \in [P -> Int]
  <2>1. \A p \in P : p[1] \in M /\ p[2] \in months  BY <1>3
  <2> HIDE DEF months
  <2> QED BY <1>5, <2>1 DEF CellAmounts
<1>7. ASSUME NEW sum, SumsUp(sum, f, P), NEW m \in M
      PROVE  sum[InRow(P, m)] = Level(own[m], MonthStart[x + 1]) - Level(own[m], MonthStart[y])
  <2> DEFINE piece == [k \in months |-> Cell(P, m, k)]
             g == InPieces(sum, piece, months)
  <2>1. piece \in [months -> SUBSET P]  BY DEF Cell
  <2>2. Apart(piece, months)
    <3> SUFFICES ASSUME NEW k \in months, NEW l \in months, k # l PROVE piece[k] \intersect piece[l] = {}
      BY DEF Apart
    <3>1. <<m, k>> # <<m, l>>  OBVIOUS
    <3> QED BY <3>1 DEF Cell
  <2>3. Whole(piece, months) = InRow(P, m)
    <3>1. \A p : p \in Whole(piece, months) <=> \E k \in months : p \in P /\ p = <<m, k>>
      BY InWhole DEF Cell
    <3>2. \A p \in P : \E mm \in M, k \in months : p = <<mm, k>>
      BY <1>3
    <3>3. \A p : p \in InRow(P, m) <=> \E k \in months : p \in P /\ p = <<m, k>>
      BY <3>2 DEF InRow
    <3> HIDE DEF piece, months
    <3> QED BY <3>1, <3>3
  <2>4. \A k \in months : g[k] = S!MonthTotal(own[m], k).value
    <3> SUFFICES ASSUME NEW k \in months PROVE sum[Cell(P, m, k)] = S!MonthTotal(own[m], k).value
      BY DEF InPieces
    <3>1. CASE <<m, k>> \in P
      <4>1. Cell(P, m, k) = {<<m, k>>} /\ f[<<m, k>>] = S!MonthTotal(own[m], k).value
        BY <3>1 DEF Cell, CellAmounts
      <4>2. sum[{<<m, k>>}] = f[<<m, k>>] + sum[{<<m, k>>} \ {<<m, k>>}] /\ sum[{}] = 0
        BY <1>7, <3>1 DEF SumsUp
      <4>3. {<<m, k>>} \ {<<m, k>>} = {} /\ f[<<m, k>>] \in Int
        BY <1>6, <3>1
      <4> DEFINE amount == f[<<m, k>>]
      <4>4. sum[{<<m, k>>}] = amount + 0 /\ amount \in Int
        BY <4>2, <4>3
      <4>5. sum[{<<m, k>>}] = amount
        <5> HIDE DEF amount
        <5> QED BY <4>4
      <4> HIDE DEF f
      <4> QED BY <4>1, <4>5
    <3>2. CASE <<m, k>> \notin P
      <4>1. Cell(P, m, k) = {}  BY <3>2 DEF Cell
      <4>2. Hits(own[m], k) = {}  BY <3>2 DEF Cells
      <4>3. k \in 1..(Len(MonthStart) - 1)  BY <1>1
      <4>4. S!MonthTotal(own[m], k).value = 0
        BY <4>2, <4>3, DataWhereHit
      <4> QED BY <1>7, <4>1, <4>4 DEF SumsUp
    <3> QED BY <3>1, <3>2
  <2>5. g \in [months -> Int]
    <3>1. \A k \in months : g[k] \in Int  BY <1>5, <2>4
    <3> QED BY <3>1 DEF InPieces
  <2> HIDE DEF f, g, piece, months
  <2>6. PICK other : SumsUp(other, g, months)
    <3>1. PICK other : Folded(other, g, months)  BY <1>2, <2>5, FoldExists
    <3> QED BY <1>2, <2>5, <3>1, FoldSums
  <2>7. other[months] = sum[Whole(piece, months)]
    BY <1>2, <1>4, <1>6, <1>7, <2>1, <2>2, <2>6, SumOfPieces DEF g
  <2>8. other[months] = Level(own[m], MonthStart[x + 1]) - Level(own[m], MonthStart[y])
    <3>1. y \in 1..Len(MonthStart)  BY <1>1
    <3>2. IsFiniteSet(own[m]) /\ \A iv \in own[m] : Measured(iv)  OBVIOUS
    <3> DEFINE ivs == own[m]
    <3>3. IsFiniteSet(ivs) /\ (\A iv \in ivs : Measured(iv)) /\ \A k \in months : g[k] = S!MonthTotal(ivs, k).value
      BY <2>4, <3>2
    <3> HIDE DEF ivs
    <3>4. other[y..x] = Level(ivs, MonthStart[x + 1]) - Level(ivs, MonthStart[y])
      BY <2>5, <2>6, <3>1, <3>3, MonthsRise DEF months
    <3> QED BY <3>4 DEF months, ivs
  <2> QED BY <2>3, <2>7, <2>8
<1> QED BY <1>3, <1>4, <1>6, <1>7

(* A month costs a whole amount, where a price was valid. *)
LEMMA CostIs ==
    ASSUME StatisticsInv, NEW m, NEW k \in 1..(Len(MonthStart) - 1), NEW total, total.value \in Int
    PROVE  /\ S!Cost(m, k, total) # None => S!Cost(m, k, total) \in Int
           /\ S!MonthState(k, total) = "no_data" => S!Cost(m, k, total) = None
<1> DEFINE t == MonthStart[k + 1]
           valid == S!Valid(m, t)
<1>1. valid \subseteq entries /\ IsFiniteSet(valid) /\ \A p \in valid : p.from \in Int /\ p.price \in Int
  BY FS_Subset DEF S!Valid, StatisticsInv
<1>2. ASSUME valid # {} PROVE S!PriceBefore(m, t) \in valid
  <2> DEFINE g == [p \in valid |-> p.from]
  <2>1. g \in [valid -> Int] /\ \A p \in valid : g[p] = p.from  BY <1>1
  <2> HIDE DEF g, valid
  <2>2. \E p \in valid : \A q \in valid : g[q] <= g[p]
    BY <1>1, <1>2, <2>1, SomethingIsLargest
  <2>3. \E p \in valid : \A q \in valid : q.from <= p.from
    BY <2>1, <2>2
  <2> QED BY <2>3 DEF S!PriceBefore, valid
<1> HIDE DEF valid
<1>3. S!Cost(m, k, total) = IF S!MonthState(k, total) = "no_data" \/ valid = {} THEN None
                            ELSE total.value * S!PriceBefore(m, t).price
  BY DEF S!Cost, valid
<1> HIDE DEF t
<1>4. ASSUME valid # {} PROVE total.value * S!PriceBefore(m, t).price \in Int
  <2>1. S!PriceBefore(m, t).price \in Int  BY <1>1, <1>2, <1>4
  <2> QED BY <2>1
<1> QED BY <1>3, <1>4

(* What the month view shows of a month the year holds.                    *)
LEMMA SeriesIs ==
    ASSUME StatisticsInv, S!ThisYear \in S!Shown, NEW m, Comparable(m),
           NEW x, x = S!MonthOf(clock), NEW y, y = S!ThisYear, NEW k \in y..x,
           NEW total, total = S!MonthTotal(YearOf(m), k)
    PROVE  /\ k \in S!Shown /\ k \in 1..(Len(MonthStart) - 1)
           /\ S!Series(m)[k].state = "no_data" <=> Hits(YearOf(m), k) = {}
           /\ S!Series(m)[k].value = IF Hits(YearOf(m), k) = {} THEN None ELSE total.value
           /\ S!Series(m)[k].cost = S!Cost(m, k, total)
<1>1. /\ x \in 1..(Len(MonthStart) - 1) /\ y \in 1..(Len(MonthStart) - 1) /\ y <= x /\ Months \in Nat \ {0}
  BY YearIs
<1>2. Len(MonthStart) \in Nat  BY Calendar
<1>3. k \in 1..(Len(MonthStart) - 1) /\ k \in y..(Len(MonthStart) - 1)
  BY <1>1, <1>2
<1>4. k \in S!Shown
  <2>1. y \in (x - Months + 1)..x  BY DEF S!Shown
  <2>2. k \in (x - Months + 1)..x  BY <1>1, <2>1
  <2> QED BY <2>2 DEF S!Shown
<1>5. Loaded(YearOf(m), m, y, x)
  BY LoadedAlike
<1>6. S!MonthTotal(S!Known(m, S!MonthWindow), k) = total
  BY <1>3, <1>5, MonthTotalIs DEF Loaded
<1>7. ShownAs(k, total, S!Series(m)[k])
  BY <1>4, <1>6, RowIs
<1>8. S!MonthState(k, total) = "no_data" <=> Hits(YearOf(m), k) = {}
  BY <1>3, <1>5, DataWhereHit DEF Loaded
<1>9. S!Series(m)[k].cost = S!Cost(m, k, total)
  <2>1. S!Series(m)[k] = S!MonthRow(S!Known(m, S!MonthWindow), m, k)
    BY <1>4 DEF S!Series
  <2>2. \A ivs : S!MonthRow(ivs, m, k).cost = S!Cost(m, k, S!MonthTotal(ivs, k))
    BY DEF S!MonthRow
  <2> QED BY <1>6, <2>1, <2>2
<1> QED BY <1>3, <1>4, <1>7, <1>8, <1>9 DEF ShownAs

(* What the year view costs: a record for each cell of its table. *)
CostIn(own, p) == S!Cost(p[1], p[2], S!MonthTotal(own[p[1]], p[2]))

CostRecord(own, p) == [meter |-> p[1], month |-> p[2], value |-> CostIn(own, p)]

LEMMA YearCostsAre ==
    ASSUME StatisticsInv, S!ThisYear \in S!Shown, NEW scope, \A m \in scope : Comparable(m),
           NEW x, x = S!MonthOf(clock), NEW y, y = S!ThisYear,
           NEW own, \A m \in scope : own[m] = YearOf(m)
    PROVE  \A c : (\E m \in scope : c \in S!YearCosts(m)) <=>
                     \E p \in Cells(scope, own, y, x) : c = CostRecord(own, p)
<1> DEFINE n == Len(MonthStart)
           P == Cells(scope, own, y, x)
<1>1. /\ x \in 1..(n - 1) /\ y \in 1..(n - 1) /\ y <= x /\ x <= y + MonthsPerYear - 1 /\ MonthsPerYear \in Nat \ {0}
      /\ n \in Nat /\ DOMAIN MonthStart = 1..n
  BY YearIs, Calendar
<1>2. \A k : k \in S!MonthsOfYear <=> k \in y..(y + MonthsPerYear - 1) /\ k \in 1..(n - 1)
  BY <1>1 DEF S!MonthsOfYear
<1> HIDE DEF n
<1>3. \A k : k \in y..x => k \in S!MonthsOfYear
  BY <1>1, <1>2
<1>4. \A k : k \in S!MonthsOfYear => k \in 1..(n - 1) /\ k \in y..(n - 1) /\ (k \in y..x \/ k \in (x + 1)..(n - 1))
  BY <1>1, <1>2
<1>5. ASSUME NEW m \in scope, NEW k \in S!MonthsOfYear
      PROVE  /\ S!MonthTotal(S!Known(m, S!YearWindow), k) = S!MonthTotal(own[m], k)
             /\ S!MonthTotal(own[m], k).covered > 0 <=> <<m, k>> \in P
  <2>1. Loaded(own[m], m, y, x)  BY LoadedAlike
  <2>2. k \in 1..(n - 1) /\ k \in y..(n - 1) /\ (k \in y..x \/ k \in (x + 1)..(n - 1))
    BY <1>4
  <2>3. S!MonthTotal(S!Known(m, S!YearWindow), k) = S!MonthTotal(own[m], k)
    BY <2>1, <2>2, MonthTotalIs DEF Loaded, n
  <2>4. S!MonthTotal(own[m], k).covered > 0 <=> Hits(own[m], k) # {}
    BY <2>1, <2>2, DataWhereHit DEF Loaded, n
  <2>5. Hits(own[m], k) # {} => k \in y..x
    BY <2>1, <2>2 DEF Loaded, n
  <2>6. <<m, k>> \in P <=> k \in y..x /\ Hits(own[m], k) # {}
    BY DEF Cells
  <2> QED BY <2>3, <2>4, <2>5, <2>6
<1>6. ASSUME NEW m \in scope
      PROVE  \A c : c \in S!YearCosts(m) <=>
                \E k \in S!MonthsOfYear : /\ S!MonthTotal(S!Known(m, S!YearWindow), k).covered > 0
                                          /\ c = [meter |-> m, month |-> k,
                                                  value |-> S!Cost(m, k, S!MonthTotal(S!Known(m, S!YearWindow), k))]
  BY DEF S!YearCosts
<1>7. ASSUME NEW c, NEW m \in scope, c \in S!YearCosts(m)
      PROVE  \E p \in P : c = CostRecord(own, p)
  <2>1. PICK k \in S!MonthsOfYear :
               /\ S!MonthTotal(S!Known(m, S!YearWindow), k).covered > 0
               /\ c = [meter |-> m, month |-> k, value |-> S!Cost(m, k, S!MonthTotal(S!Known(m, S!YearWindow), k))]
    BY <1>6, <1>7
  <2>2. <<m, k>> \in P  BY <1>5, <2>1
  <2>3. CostIn(own, <<m, k>>) = S!Cost(m, k, S!MonthTotal(own[m], k))  BY DEF CostIn
  <2> HIDE DEF P
  <2> QED BY <1>5, <2>1, <2>2, <2>3 DEF CostRecord
<1>8. ASSUME NEW p \in P
      PROVE  \E m \in scope : CostRecord(own, p) \in S!YearCosts(m)
  <2>1. p[1] \in scope /\ p[2] \in y..x /\ p = <<p[1], p[2]>>
    BY DEF Cells
  <2>2. p[2] \in S!MonthsOfYear  BY <1>3, <2>1
  <2>3. /\ S!MonthTotal(S!Known(p[1], S!YearWindow), p[2]) = S!MonthTotal(own[p[1]], p[2])
        /\ S!MonthTotal(own[p[1]], p[2]).covered > 0
    BY <1>5, <2>1, <2>2
  <2>4. CostRecord(own, p) \in S!YearCosts(p[1])
    BY <1>6, <2>1, <2>2, <2>3 DEF CostIn, CostRecord
  <2> QED BY <2>1, <2>4
<1> QED BY <1>7, <1>8

OfScope(series, scope) == [m \in scope |-> series[m]]

(* The table of the year for meters together.                              *)
Table(P, scope, own, m, n) ==
    /\ IsFiniteSet(scope) /\ scope \subseteq CountedMeters
    /\ IsFiniteSet(P) /\ (\A p \in P : p[1] \in scope /\ p[2] \in m..n /\ p = <<p[1], p[2]>>)
    /\ CellAmounts(P, own) \in [P -> Int]
    /\ \A c \in scope : Loaded(own[c], c, m, n)
    /\ \A c \in scope, k \in m..n : <<c, k>> \in P <=> Hits(own[c], k) # {}

(* That table, for the year of the clock.                                  *)
LEMMA TableIs ==
    ASSUME StatisticsInv, S!ThisYear \in S!Shown, NEW scope \in S!Scopes, \A m \in scope : Comparable(m),
           NEW x, x = S!MonthOf(clock), NEW y, y = S!ThisYear,
           NEW own, \A m \in scope : own[m] = YearOf(m), NEW P, P = Cells(scope, own, y, x)
    PROVE  /\ y \in 1..(Len(MonthStart) - 1) /\ x \in y..(Len(MonthStart) - 1) /\ IsFiniteSet(y..x)
           /\ {k \in S!Shown : k >= S!ThisYear} = y..x
           /\ Table(P, scope, own, y, x)
<1>1. /\ x \in 1..(Len(MonthStart) - 1) /\ y \in 1..(Len(MonthStart) - 1) /\ y <= x /\ Months \in Nat \ {0}
      /\ Len(MonthStart) \in Nat
  BY YearIs, Calendar
<1>2. y \in 1..(Len(MonthStart) - 1) /\ x \in y..(Len(MonthStart) - 1)
  BY <1>1
<1>3. IsFiniteSet(y..x)
  BY <1>1, FS_Interval
<1>4. {k \in S!Shown : k >= S!ThisYear} = y..x
  <2>1. y \in (x - Months + 1)..x /\ S!Shown = (x - Months + 1)..x  BY DEF S!Shown
  <2>2. \A k \in Int : k \in (x - Months + 1)..x /\ k >= y <=> k \in y..x
    BY <1>1, <2>1
  <2>3. (x - Months + 1)..x \subseteq Int /\ y..x \subseteq Int  BY <1>1
  <2> QED BY <2>1, <2>2, <2>3
<1>5. scope \subseteq CountedMeters /\ IsFiniteSet(scope)
  <2>1. scope \subseteq CountedMeters  BY DEF S!Scopes
  <2> QED BY <2>1, FS_Subset, StatisticsAssumption DEF StatisticsAssumption
<1>6. \A m \in scope : Loaded(own[m], m, y, x)
  BY LoadedAlike
<1>7. IsFiniteSet(P) /\ CellAmounts(P, own) \in [P -> Int]
  <2>1. \A m \in scope : IsFiniteSet(own[m]) /\ \A iv \in own[m] : Measured(iv)
    BY <1>6 DEF Loaded
  <2> QED BY <1>2, <1>5, <2>1, RowAddsUp
<1>8. \A m \in scope, k \in y..x : <<m, k>> \in P <=> Hits(own[m], k) # {}
  BY DEF Cells
<1>9. \A p \in P : p[1] \in scope /\ p[2] \in y..x /\ p = <<p[1], p[2]>>
  BY DEF Cells
<1> QED BY <1>2, <1>3, <1>4, <1>5, <1>6, <1>7, <1>8, <1>9 DEF Table

(* The year to date is the sum of its months. *)
LEMMA CurrentAgrees ==
    ASSUME StatisticsInv, S!ThisYear \in S!Shown, NEW scope \in S!Scopes, \A m \in scope : Comparable(m),
           NEW series, \A m \in CountedMeters : series[m] = S!Series(m),
           NEW summary, \A m \in CountedMeters : summary[m] = S!YearSummary(m), NEW costs,
           NEW merged, \A k \in S!Shown : merged[k] = S!MergedMonth(OfScope(series, scope), k)
    PROVE  S!Year(scope, summary, costs).current =
              S!Total({[month |-> k, value |-> merged[k].value] : k \in {k \in S!Shown : k >= S!ThisYear}})
<1>1. PICK x, y : x = S!MonthOf(clock) /\ y = S!ThisYear  OBVIOUS
<1> DEFINE own == [m \in scope |-> YearOf(m)]
           P == Cells(scope, own, y, x)
           f == CellAmounts(P, own)
           months == y..x
<1>0. /\ y \in 1..(Len(MonthStart) - 1) /\ x \in y..(Len(MonthStart) - 1) /\ IsFiniteSet(y..x)
      /\ {k \in S!Shown : k >= S!ThisYear} = y..x
      /\ Table(P, scope, own, y, x)
  <2>1. (\A m \in scope : own[m] = YearOf(m)) /\ P = Cells(scope, own, y, x)
    OBVIOUS
  <2> HIDE DEF own, P
  <2> QED BY <1>1, <2>1, TableIs
<1>2. /\ y \in 1..(Len(MonthStart) - 1) /\ x \in y..(Len(MonthStart) - 1) /\ IsFiniteSet(months)
      /\ IsFiniteSet(scope) /\ scope \subseteq CountedMeters
      /\ \A m \in scope : Loaded(own[m], m, y, x)
      /\ IsFiniteSet(P) /\ (\A p \in P : p[1] \in scope /\ p[2] \in months /\ p = <<p[1], p[2]>>) /\ f \in [P -> Int]
      /\ \A m \in scope, k \in months : <<m, k>> \in P <=> Hits(own[m], k) # {}
  <2> HIDE DEF own, P
  <2> QED BY <1>0 DEF Table
<1>3. PICK sum : SumsUp(sum, f, P)
  <2> HIDE DEF P, f
  <2>1. PICK sum : Folded(sum, f, P)  BY <1>2, FoldExists
  <2> QED BY <1>2, <2>1, FoldSums
<1>4. ASSUME NEW m \in scope
      PROVE  summary[m].current = SumOrNone(sum, InRow(P, m))
  <2>1. summary[m].current = IF own[m] = {} THEN None ELSE Level(own[m], MonthStart[x + 1]) - Level(own[m], MonthStart[y])
    <3>1. summary[m] = S!YearSummary(m) /\ own[m] = YearOf(m)  BY <1>2
    <3> QED BY <1>1, <3>1, CurrentIs
  <2>2. sum[InRow(P, m)] = Level(own[m], MonthStart[x + 1]) - Level(own[m], MonthStart[y])
    <3>1. \A mm \in scope : IsFiniteSet(own[mm]) /\ \A iv \in own[mm] : Measured(iv)
      BY <1>2 DEF Loaded
    <3> QED BY <1>2, <1>3, <3>1, RowAddsUp
  <2>3. own[m] = {} <=> InRow(P, m) = {}
    <3>1. CASE own[m] = {}
      <4>1. \A k : Hits(own[m], k) = {}  BY <3>1 DEF Hits
      <4>2. \A p \in P : p[1] # m  BY <4>1 DEF Cells
      <4> HIDE DEF P
      <4> QED BY <3>1, <4>2 DEF InRow
    <3>2. CASE own[m] # {}
      <4>1. PICK k \in months : Hits(own[m], k) # {}
        BY <1>2, <3>2 DEF Loaded
      <4>2. <<m, k>> \in InRow(P, m)
        BY <1>2, <4>1 DEF InRow
      <4> QED BY <3>2, <4>2
    <3> QED BY <3>1, <3>2
  <2> QED BY <2>1, <2>2, <2>3 DEF SumOrNone
<1>5. S!Year(scope, summary, costs).current = SumOrNone(sum, P)
  <2> DEFINE v == [m \in scope |-> summary[m].current]
  <2>1. S!Year(scope, summary, costs).current = S!Total(ByMeter(scope, v))
    <3>1. ByMeter(scope, v) = {[meter |-> m, value |-> summary[m].current] : m \in scope}
      BY DEF ByMeter
    <3> QED BY <3>1 DEF S!Year
  <2>2. \A m \in scope : v[m] = SumOrNone(sum, InRow(P, m))  BY <1>4
  <2> HIDE DEF v, P, f, months, own
  <2>3. S!Total(ByMeter(scope, v)) = SumOrNone(sum, P)
    BY <1>2, <1>3, <2>2, TotalOfRows
  <2> QED BY <2>1, <2>3
<1>6. ASSUME NEW k \in months
      PROVE  merged[k].value = SumOrNone(sum, InColumn(P, k))
  <2> DEFINE v == [m \in scope |-> series[m][k].value]
  <2>0. k \in S!Shown  BY <1>0
  <2>1. merged[k].value = S!Total(ByMeter(scope, v))
    <3> DEFINE part == OfScope(series, scope)
    <3>1. {[meter |-> m, value |-> part[m][k].value] : m \in DOMAIN part} = ByMeter(scope, v)
      BY DEF ByMeter, OfScope
    <3>2. merged[k] = S!MergedMonth(part, k)  BY <2>0
    <3> HIDE DEF part
    <3>3. S!MergedMonth(part, k).value = S!Total({[meter |-> m, value |-> part[m][k].value] : m \in DOMAIN part})
      BY DEF S!MergedMonth
    <3> QED BY <3>1, <3>2, <3>3
  <2>2. ASSUME NEW m \in scope PROVE v[m] = IF <<m, k>> \in P THEN f[<<m, k>>] ELSE None
    <3>1. series[m] = S!Series(m) /\ own[m] = YearOf(m)  BY <1>2
    <3>2. S!Series(m)[k].value = IF Hits(own[m], k) = {} THEN None ELSE S!MonthTotal(own[m], k).value
      BY <1>1, <3>1, SeriesIs
    <3>3. <<m, k>> \in P => f[<<m, k>>] = S!MonthTotal(own[m], k).value
      BY DEF CellAmounts
    <3> HIDE DEF own, P, f
    <3> QED BY <1>2, <3>1, <3>2, <3>3
  <2> HIDE DEF v, P, f, months, own
  <2>3. \A m \in scope : v[m] = IF <<m, k>> \in P THEN f[<<m, k>>] ELSE None
    BY <2>2
  <2>4. S!Total(ByMeter(scope, v)) = SumOrNone(sum, InColumn(P, k))
    BY <1>2, <1>3, <2>3, TotalOfCells
  <2> QED BY <2>1, <2>4
<1>7. S!Total({[month |-> k, value |-> merged[k].value] : k \in months}) = SumOrNone(sum, P)
  <2> DEFINE w == [k \in months |-> merged[k].value]
  <2>1. ByMonth(months, w) = {[month |-> k, value |-> merged[k].value] : k \in months}
    BY DEF ByMonth
  <2>2. \A k \in months : w[k] = SumOrNone(sum, InColumn(P, k))  BY <1>6
  <2> HIDE DEF w, P, f, months, own
  <2>3. S!Total(ByMonth(months, w)) = SumOrNone(sum, P)
    BY <1>2, <1>3, <2>2, TotalOfColumns
  <2> QED BY <2>1, <2>3
<1> HIDE DEF P
<1> QED BY <1>0, <1>5, <1>7

(* So are its costs, where a year is called complete. *)
LEMMA CostAgrees ==
    ASSUME StatisticsInv, S!ThisYear \in S!Shown, NEW scope \in S!Scopes, \A m \in scope : Comparable(m),
           NEW series, \A m \in CountedMeters : series[m] = S!Series(m),
           NEW summary,
           NEW costs, \A m \in CountedMeters : costs[m] = S!YearCosts(m),
           NEW merged, \A k \in S!Shown : merged[k] = S!MergedMonth(OfScope(series, scope), k),
           S!Year(scope, summary, costs).complete
    PROVE  S!Year(scope, summary, costs).cost =
              S!Total({[month |-> k, value |-> merged[k].cost] : k \in {k \in S!Shown : k >= S!ThisYear}})
<1>1. PICK x, y : x = S!MonthOf(clock) /\ y = S!ThisYear  OBVIOUS
<1> DEFINE own == [m \in scope |-> YearOf(m)]
           P == Cells(scope, own, y, x)
           f == [p \in P |-> CostIn(own, p)]
           months == y..x
           owed == UNION {costs[m] : m \in scope}
<1>0. /\ y \in 1..(Len(MonthStart) - 1) /\ x \in y..(Len(MonthStart) - 1) /\ IsFiniteSet(y..x)
      /\ {k \in S!Shown : k >= S!ThisYear} = y..x
      /\ Table(P, scope, own, y, x)
  <2>1. (\A m \in scope : own[m] = YearOf(m)) /\ P = Cells(scope, own, y, x)
    OBVIOUS
  <2> HIDE DEF own, P
  <2> QED BY <1>1, <2>1, TableIs
<1>2. /\ y \in 1..(Len(MonthStart) - 1) /\ x \in y..(Len(MonthStart) - 1) /\ IsFiniteSet(months)
      /\ IsFiniteSet(scope) /\ scope \subseteq CountedMeters
      /\ \A m \in scope : Loaded(own[m], m, y, x)
      /\ IsFiniteSet(P) /\ (\A p \in P : p[1] \in scope /\ p[2] \in months /\ p = <<p[1], p[2]>>) /\ CellAmounts(P, own) \in [P -> Int]
      /\ \A m \in scope, k \in months : <<m, k>> \in P <=> Hits(own[m], k) # {}
  <2> HIDE DEF own, P
  <2> QED BY <1>0 DEF Table
<1>3. \A c : c \in owed <=> \E p \in P : c = CostRecord(own, p)
  <2>1. \A c : c \in owed <=> \E m \in scope : c \in S!YearCosts(m)
    BY <1>2
  <2>2. \A c : (\E m \in scope : c \in S!YearCosts(m)) <=> \E p \in P : c = CostRecord(own, p)
    <3>1. (\A m \in scope : own[m] = YearOf(m)) /\ P = Cells(scope, own, y, x)
      OBVIOUS
    <3> HIDE DEF own, P
    <3> QED BY <1>1, <3>1, YearCostsAre
  <2> HIDE DEF owed, P
  <2> QED BY <2>1, <2>2
<1>4. /\ S!Year(scope, summary, costs).cost = S!Total(owed)
      /\ \A c \in owed : c.value # None
  BY DEF S!Year
<1> HIDE DEF owed
<1>5. \A p \in P : p[1] \in scope /\ p[2] \in months /\ p = <<p[1], p[2]>> /\ p[2] \in 1..(Len(MonthStart) - 1)
  <2>1. \A p \in P : p[1] \in scope /\ p[2] \in months /\ p = <<p[1], p[2]>>
    BY <1>2
  <2>2. \A k \in months : k \in 1..(Len(MonthStart) - 1)
    BY <1>2, Calendar
  <2> HIDE DEF P, months
  <2> QED BY <2>1, <2>2
<1>6. ASSUME NEW p \in P PROVE CostIn(own, p) # None /\ CostIn(own, p) \in Int
  <2>1. CostRecord(own, p) \in owed /\ CostRecord(own, p).value = CostIn(own, p)  BY <1>3 DEF CostRecord
  <2>2. CostIn(own, p) # None  BY <1>4, <2>1
  <2>3. S!MonthTotal(own[p[1]], p[2]).value \in Int
    <3>1. CellAmounts(P, own)[p] = S!MonthTotal(own[p[1]], p[2]).value  BY DEF CellAmounts
    <3> HIDE DEF P, own
    <3> QED BY <1>2, <3>1
  <2> HIDE DEF own, P
  <2> QED BY <1>5, <2>2, <2>3, CostIs DEF CostIn
<1>7. f \in [P -> Int]
  BY <1>6
<1> HIDE DEF P
<1>8. PICK sum : SumsUp(sum, f, P)
  <2> HIDE DEF f
  <2>1. PICK sum : Folded(sum, f, P)  BY <1>2, <1>7, FoldExists
  <2> QED BY <1>2, <1>7, <2>1, FoldSums
<1>9. \A p \in P : sum[{p}] = f[p]
  <2> SUFFICES ASSUME NEW p \in P PROVE sum[{p}] = f[p]
    OBVIOUS
  <2>1. {p} \ {p} = {} /\ f[p] \in Int  BY <1>7
  <2> HIDE DEF f
  <2> QED BY <1>8, <2>1 DEF SumsUp
<1>10. S!Total(owed) = SumOrNone(sum, P)
  <2> DEFINE piece == [c \in owed |-> {p \in P : c = CostRecord(own, p)}]
  <2>1. IsFiniteSet(owed)
    <3> DEFINE g == [p \in P |-> CostRecord(own, p)]
    <3>1. g \in Surjection(P, owed)
      BY <1>3 DEF Surjection
    <3> QED BY <1>2, <3>1, FS_Surjection
  <2>2. piece \in [owed -> SUBSET P]
    OBVIOUS
  <2>3. Apart(piece, owed)
    <3> QED BY DEF Apart
  <2>4. Whole(piece, owed) = P
    <3>1. \A c \in owed : \A p : p \in piece[c] <=> p \in P /\ c = CostRecord(own, p)
      OBVIOUS
    <3> HIDE DEF piece
    <3>2. \A p : p \in Whole(piece, owed) <=> \E c \in owed : p \in piece[c]
      BY InWhole
    <3> QED BY <1>3, <3>1, <3>2
  <2>5. \A c \in owed : c.value = SumOrNone(sum, piece[c])
    <3> SUFFICES ASSUME NEW c \in owed PROVE c.value = SumOrNone(sum, piece[c])
      OBVIOUS
    <3>1. PICK p \in P : c = CostRecord(own, p)  BY <1>3
    <3>2. \A q \in P : CostRecord(own, q) = CostRecord(own, p) => q = p
      <4> SUFFICES ASSUME NEW q \in P, CostRecord(own, q) = CostRecord(own, p) PROVE q = p
        OBVIOUS
      <4>1. q[1] = p[1] /\ q[2] = p[2]  BY DEF CostRecord
      <4> QED BY <1>5, <4>1
    <3>3. piece[c] = {p}
      <4> QED BY <3>1, <3>2
    <3>4. c.value = f[p]  BY <3>1 DEF CostRecord
    <3> HIDE DEF f, piece
    <3> QED BY <1>9, <3>3, <3>4 DEF SumOrNone
  <2> HIDE DEF piece, f
  <2>6. S!Total(owed) = SumOrNone(sum, Whole(piece, owed))
    BY <1>2, <1>7, <1>8, <2>1, <2>2, <2>3, <2>5, TotalOfPieces
  <2> QED BY <2>4, <2>6
<1>11. ASSUME NEW k \in months
       PROVE  merged[k].cost = SumOrNone(sum, InColumn(P, k))
  <2> DEFINE v == [m \in scope |-> series[m][k].cost]
             part == OfScope(series, scope)
  <2>0. k \in S!Shown /\ k \in 1..(Len(MonthStart) - 1)
    <3>1. k \in S!Shown  BY <1>0
    <3>2. k \in 1..(Len(MonthStart) - 1)  BY <1>2, Calendar
    <3> QED BY <3>1, <3>2
  <2>1. ASSUME NEW m \in scope
        PROVE  /\ part[m][k].state = "no_data" <=> <<m, k>> \notin P
               /\ part[m][k].cost = S!Cost(m, k, S!MonthTotal(own[m], k))
    <3>1. part[m] = S!Series(m) /\ own[m] = YearOf(m)  BY <1>2 DEF OfScope
    <3>2. S!Series(m)[k].state = "no_data" <=> Hits(own[m], k) = {}
      BY <1>1, <3>1, SeriesIs
    <3>3. S!Series(m)[k].cost = S!Cost(m, k, S!MonthTotal(own[m], k))
      BY <1>1, <3>1, SeriesIs
    <3> HIDE DEF own, part
    <3> QED BY <1>2, <3>1, <3>2, <3>3
  <2>2. \A m \in scope : <<m, k>> \in P =>
           /\ S!Cost(m, k, S!MonthTotal(own[m], k)) = f[<<m, k>>]
           /\ f[<<m, k>>] # None
    BY <1>6 DEF CostIn
  <2>3. \A m \in scope : <<m, k>> \notin P => S!Cost(m, k, S!MonthTotal(own[m], k)) = None
    <3> SUFFICES ASSUME NEW m \in scope, <<m, k>> \notin P PROVE S!Cost(m, k, S!MonthTotal(own[m], k)) = None
      OBVIOUS
    <3>1. Loaded(own[m], m, y, x) /\ Hits(own[m], k) = {}  BY <1>2
    <3> DEFINE total == S!MonthTotal(own[m], k)
    <3>2. S!MonthState(k, total) = "no_data" /\ total.value \in Int
      BY <2>0, <3>1, DataWhereHit DEF Loaded
    <3> HIDE DEF total
    <3>3. S!Cost(m, k, total) = None
      BY <2>0, <3>2, CostIs
    <3> QED BY <3>3 DEF total
  <2>4. merged[k].cost = S!Total(ByMeter(scope, v))
    <3>1. {[meter |-> m, value |-> part[m][k].cost] : m \in DOMAIN part} = ByMeter(scope, v)
      BY DEF ByMeter, OfScope
    <3>2. merged[k] = S!MergedMonth(part, k) /\ DOMAIN part = scope  BY <2>0 DEF OfScope
    <3> HIDE DEF part, v, f, own
    <3>3. \A m \in {mm \in DOMAIN part : part[mm][k].state # "no_data"} : part[m][k].cost # None
      <4> SUFFICES ASSUME NEW m \in DOMAIN part, part[m][k].state # "no_data" PROVE part[m][k].cost # None
        OBVIOUS
      <4>1. m \in scope /\ <<m, k>> \in P  BY <2>1, <3>2
      <4>2. part[m][k].cost = f[<<m, k>>] /\ f[<<m, k>>] # None  BY <2>1, <2>2, <4>1
      <4> QED BY <4>2
    <3>4. S!MergedMonth(part, k).cost = S!Total({[meter |-> m, value |-> part[m][k].cost] : m \in DOMAIN part})
      BY <3>3 DEF S!MergedMonth
    <3> QED BY <3>1, <3>2, <3>4
  <2>5. \A m \in scope : v[m] = IF <<m, k>> \in P THEN f[<<m, k>>] ELSE None
    <3>1. \A m \in scope : v[m] = part[m][k].cost  BY DEF OfScope
    <3> HIDE DEF part, v, f, own
    <3> QED BY <2>1, <2>2, <2>3, <3>1
  <2> HIDE DEF v, part, f, months, own
  <2>6. S!Total(ByMeter(scope, v)) = SumOrNone(sum, InColumn(P, k))
    <3>1. /\ IsFiniteSet(P) /\ f \in [P -> Int] /\ SumsUp(sum, f, P) /\ IsFiniteSet(scope)
          /\ \A p \in P : p[1] \in scope /\ p = <<p[1], p[2]>>
      BY <1>2, <1>7, <1>8
    <3> QED BY <2>5, <3>1, TotalOfCells
  <2> QED BY <2>4, <2>6
<1>12. S!Total({[month |-> k, value |-> merged[k].cost] : k \in months}) = SumOrNone(sum, P)
  <2> DEFINE w == [k \in months |-> merged[k].cost]
  <2>1. ByMonth(months, w) = {[month |-> k, value |-> merged[k].cost] : k \in months}
    BY DEF ByMonth
  <2>2. \A k \in months : w[k] = SumOrNone(sum, InColumn(P, k))  BY <1>11
  <2> HIDE DEF w, f, months, own
  <2>3. S!Total(ByMonth(months, w)) = SumOrNone(sum, P)
    BY <1>2, <1>7, <1>8, <2>2, TotalOfColumns
  <2> QED BY <2>1, <2>3
<1> QED BY <1>0, <1>4, <1>10, <1>12

(* For any readings, calendar, prices and clock: the shares of an interval *)
(* add up to it; and the year to date, and its cost where it is complete,  *)
(* are the sum of what the month view shows, for meters one by one and     *)
(* together, unless an interval began before the year view's window or     *)
(* ends in the future.                                                     *)
THEOREM ViewsCorrect == AllSpec => []ViewsAgree
<1>1. AllInit => StatisticsInv  BY CountingAlone, StatisticsInit
<1>2. StatisticsInv /\ [AllNext]_all => StatisticsInv'  BY CountingAlone, StatisticsNext
<1>3. StatisticsInv => ViewsAgree
  <2> SUFFICES ASSUME StatisticsInv PROVE S!ViewsAgree
    BY DEF ViewsAgree
  <2>1. \A m \in CountedMeters : \A iv \in S!Known(m, 0) : S!SharesAddUp(iv)
    BY SharesAdd
  <2>2. ASSUME S!ThisYear \in S!Shown, NEW scope \in S!Scopes, \A m \in scope : Comparable(m),
               NEW series, \A m \in CountedMeters : series[m] = S!Series(m),
               NEW summary, \A m \in CountedMeters : summary[m] = S!YearSummary(m),
               NEW costs, \A m \in CountedMeters : costs[m] = S!YearCosts(m)
        PROVE  S!YearTellsItsMonths(scope, series, summary, costs)
    <3> DEFINE merged == [k \in S!Shown |-> S!MergedMonth(OfScope(series, scope), k)]
    <3>1. \A k \in S!Shown : merged[k] = S!MergedMonth(OfScope(series, scope), k)
      OBVIOUS
    <3>2. merged = [k \in S!Shown |-> S!MergedMonth([m \in scope |-> series[m]], k)]
      BY DEF OfScope
    <3> HIDE DEF merged
    <3>3. S!Year(scope, summary, costs).current =
             S!Total({[month |-> k, value |-> merged[k].value] : k \in {k \in S!Shown : k >= S!ThisYear}})
      BY <2>2, <3>1, CurrentAgrees
    <3>4. S!Year(scope, summary, costs).complete =>
             S!Year(scope, summary, costs).cost =
                S!Total({[month |-> k, value |-> merged[k].cost] : k \in {k \in S!Shown : k >= S!ThisYear}})
      BY <2>2, <3>1, CostAgrees
    <3> QED BY <3>2, <3>3, <3>4 DEF S!YearTellsItsMonths
  <2>3. ASSUME S!ThisYear \in S!Shown, NEW scope \in S!Scopes, \A m \in scope : Comparable(m)
        PROVE  S!YearTellsItsMonths(scope, [m \in CountedMeters |-> S!Series(m)],
                                    [m \in CountedMeters |-> S!YearSummary(m)],
                                    [m \in CountedMeters |-> S!YearCosts(m)])
    BY <2>2, <2>3
  <2> QED BY <2>1, <2>3 DEF S!ViewsAgree, Comparable
<1> QED BY <1>1, <1>2, <1>3, PTL DEF AllSpec
=============================================================================

---------------------------- MODULE PhotoProofs ----------------------------
(***************************************************************************)
(* Proofs about the photo pipeline for answers of every length and         *)
(* confidence, and every configuration of its limits.                      *)
(***************************************************************************)
EXTENDS PhotoProperties, TLAPS

Replies == NoAnswer \cup Output

\* What the endpoint has in hand goes back to the answer for the latest photo, and
\* so does the stored reading, if it is of that photo.
IInv ==
    /\ photos \in Nat
    /\ at.op \in {"parse", "judge", "store"} => answer \in Replies
    /\ at.op \in {"judge", "store"} => at.output = Parsed(answer)
    /\ at.op = "store" => at.status = StatusOf(at.output)
    /\ reading # None => /\ reading.of \in Nat /\ reading.of <= photos
                         /\ at.op # "idle" => reading.of < photos
    /\ (reading # None /\ reading.of = photos) =>
         /\ answer \in Replies
         /\ reading.status = StatusOf(Parsed(answer))
         /\ reading.value = Parsed(answer).reading

-----------------------------------------------------------------------------
(* Answers.                                                                *)

\* No answer of the schema is a failed one.
LEMMA RepliesDiffer == \A x \in Output : x \notin NoAnswer
<1>1. ASSUME NEW x \in Output, x \in NoAnswer
      PROVE  FALSE
  <2>1. DOMAIN x = {"none"}
    BY <1>1 DEF NoAnswer
  <2>2. "meter" \in DOMAIN x
    BY DEF Output
  <2>3. QED  BY <2>1, <2>2
<1>2. QED  BY <1>1

\* What normalising an answer leaves of it.
LEMMA NormalisedFields ==
    ASSUME NEW x \in Output
    PROVE  /\ Normalised(x).meter = x.meter /\ Normalised(x).display = x.display
           /\ Normalised(x).digits = x.digits /\ Normalised(x).reading = x.reading
           /\ Normalised(x).asSerial = x.asSerial /\ Normalised(x).retake = x.retake
           /\ Normalised(x).confidence =
                IF x.confidence < 0 THEN 0
                ELSE IF x.confidence > 100 THEN 100 ELSE x.confidence
           /\ Normalised(x).quality =
                IF x.quality \in {"acceptable", "poor"} THEN x.quality ELSE "unknown"
BY DEF Output, Normalised

LEMMA ParsedReply ==
    ASSUME NEW x \in Replies
    PROVE  /\ x \in NoAnswer => StatusOf(Parsed(x)) = "rejected" /\ Parsed(x).reading = None
           /\ x \in Output => Parsed(x) = Normalised(x)
BY RepliesDiffer DEF Replies, Parsed, Fallback, StatusOf

\* An answer that is accepted said so itself; the threshold must be above zero, as
\* a confidence below zero is cut to zero.
LEMMA AcceptedReply ==
    ASSUME NEW x \in Replies, StatusOf(Parsed(x)) = "accepted", Threshold > 0
    PROVE  /\ x \in Output
           /\ x.meter /\ x.display /\ ~x.retake /\ x.quality # "poor"
           /\ x.digits \in MinDigits..MaxDigits /\ ~x.asSerial
           /\ x.reading = "same" /\ x.confidence >= Threshold
<1>1. x \in Output /\ Parsed(x) = Normalised(x)
  BY ParsedReply DEF Replies
<1>2. PICK y : y = Normalised(x)
  OBVIOUS
<1>3. y.meter /\ ~Flawed(y) /\ ~Confused(y) /\ ~Doubtful(y)
  BY <1>1, <1>2, Zenon DEF StatusOf
<1>4. /\ y.meter = x.meter /\ y.display = x.display /\ y.digits = x.digits
      /\ y.reading = x.reading /\ y.asSerial = x.asSerial /\ y.retake = x.retake
  BY <1>1, <1>2, NormalisedFields
<1>5. x.quality # "poor"
  <2>1. y.quality = IF x.quality \in {"acceptable", "poor"} THEN x.quality ELSE "unknown"
    BY <1>1, <1>2, NormalisedFields
  <2>2. y.quality # "poor"
    BY <1>3 DEF Doubtful
  <2>3. QED  BY <2>1, <2>2
<1>6. x.confidence >= Threshold
  <2>1. y.confidence = IF x.confidence < 0 THEN 0
                       ELSE IF x.confidence > 100 THEN 100 ELSE x.confidence
    BY <1>1, <1>2, NormalisedFields
  <2>2. ~(y.confidence < Threshold)
    BY <1>3 DEF Doubtful
  <2>3. x.confidence \in Int /\ Threshold \in 0..100
    <3>1. x.confidence \in Confidences \cup {0, 100}
      BY <1>1 DEF Output
    <3>2. Confidences \subseteq Int /\ Threshold \in 0..100
      BY PhotoAssumption
    <3>3. \A c \in Confidences \cup {0, 100} : c \in Int
      BY <3>2
    <3>4. QED  BY <3>1, <3>2, <3>3, Zenon
  <2>4. QED  BY <2>1, <2>2, <2>3
<1>7. x.reading = "same" /\ x.digits \in MinDigits..MaxDigits /\ x.digits # None
  <2>1. x.reading \in {None, Letters, "same", "other"}
    BY <1>1 DEF Output
  <2>2. /\ y.reading # None /\ y.reading \notin {Letters, "other"}
        /\ y.digits # None /\ y.digits \in MinDigits..MaxDigits
    BY <1>3 DEF Flawed
  <2>3. QED  BY <1>4, <2>1, <2>2
<1>8. ~x.asSerial
  BY <1>3, <1>4, <1>7, Zenon DEF Confused
<1>9. x.display /\ ~x.retake /\ x.meter
  BY <1>3, <1>4, Zenon DEF Doubtful
<1>10. QED  BY <1>1, <1>5, <1>6, <1>7, <1>8, <1>9

-----------------------------------------------------------------------------
(* The invariant holds.                                                    *)

LEMMA InitIInv == Init => IInv
BY DEF Init, IInv, Idle

LEMMA NextIInv == IInv /\ [Next]_vars => IInv'
<1> SUFFICES ASSUME IInv, [Next]_vars PROVE IInv'
  OBVIOUS
<1>1. CASE Submit
  <2>1. photos' = photos + 1 /\ reading' = reading /\ at'.op = "check"
    BY <1>1 DEF Submit
  <2>2. reading # None => reading.of \in Nat /\ reading.of <= photos /\ photos \in Nat
    BY DEF IInv
  <2>3. photos' \in Nat
    BY <2>1 DEF IInv
  <2>4. reading' # None => reading'.of \in Nat /\ reading'.of < photos'
    BY <2>1, <2>2
  <2>5. QED  BY <2>1, <2>3, <2>4 DEF IInv
<1>2. CASE CheckUpload
  <2>1. at'.op \in {"prepare", "idle"} /\ at.op = "check"
    BY <1>2 DEF CheckUpload, Idle
  <2>2. QED  BY <1>2, <2>1 DEF CheckUpload, IInv
<1>3. CASE Preprocess
  <2>1. at'.op \in {"await", "idle"} /\ at.op = "prepare"
    BY <1>3 DEF Preprocess, Idle
  <2>2. QED  BY <1>3, <2>1 DEF Preprocess, IInv
<1>4. CASE Answer
  <2>1. at'.op = "parse" /\ at.op = "await"
    BY <1>4 DEF Answer
  <2>2. answer' \in Replies
    BY <1>4 DEF Answer, Replies
  <2>3. QED  BY <1>4, <2>1, <2>2 DEF Answer, IInv
<1>5. CASE Parse
  <2>1. at'.op = "judge" /\ at.op = "parse" /\ at'.output = Parsed(answer)
    BY <1>5 DEF Parse
  <2>2. Parsed(answer)' = Parsed(answer)
    BY <1>5 DEF Parse, Parsed, Normalised, Fallback
  <2>3. QED  BY <1>5, <2>1, <2>2 DEF Parse, IInv
<1>6. CASE Judge
  <2>1. PICK o : o = at.output
    OBVIOUS
  <2>2. at'.op = "store" /\ at.op = "judge" /\ at'.output = o /\ at'.status = StatusOf(o)
    BY <1>6, <2>1 DEF Judge
  <2>3. UNCHANGED <<photos, answer, reading>>
    BY <1>6 DEF Judge
  <2>4. o = Parsed(answer) /\ answer \in Replies
    BY <2>1, <2>2 DEF IInv
  <2>5. Parsed(answer)' = Parsed(answer)
    BY <2>3 DEF Parsed, Normalised, Fallback
  <2>6. StatusOf(at.output)' = StatusOf(o)
    BY <2>2
  <2>7. QED  BY <2>2, <2>3, <2>4, <2>5, <2>6 DEF IInv
<1>7. CASE Store
  <2>1. at.op = "store" /\ at'.op = "idle" /\ UNCHANGED <<photos, answer>>
    BY <1>7 DEF Store, Idle
  <2>2. /\ answer \in Replies /\ at.output = Parsed(answer)
        /\ at.status = StatusOf(at.output) /\ photos \in Nat
    BY <2>1 DEF IInv
  <2>3. Parsed(answer)' = Parsed(answer)
    BY <2>1 DEF Parsed, Normalised, Fallback
  <2>4. CASE reading' = reading
    BY <2>1, <2>2, <2>4 DEF IInv
  <2>5. CASE reading' = [status |-> at.status, value |-> at.output.reading, of |-> photos]
    <3>1. /\ reading'.of = photos' /\ reading'.status = StatusOf(Parsed(answer))
          /\ reading'.value = Parsed(answer).reading
      BY <2>1, <2>2, <2>5
    <3>2. StatusOf(Parsed(answer))' = StatusOf(Parsed(answer))
      BY <2>1, <2>3
    <3>3. QED  BY <2>1, <2>2, <2>3, <3>1, <3>2 DEF IInv
  <2>6. QED  BY <1>7, <2>4, <2>5 DEF Store
<1>8. CASE UNCHANGED vars
  BY <1>8 DEF vars, IInv, Parsed, Normalised, Fallback
<1>9. QED
  BY <1>1, <1>2, <1>3, <1>4, <1>5, <1>6, <1>7, <1>8 DEF Next, Step

-----------------------------------------------------------------------------
(* What follows.                                                           *)

\* The invariant the other results rest on: every stage, and the reading stored at
\* the end, goes back to the answer for the photo in hand.
THEOREM PipelineInvariant == Spec => []IInv
BY InitIInv, NextIInv, PTL DEF Spec

\* A reading is accepted only if the model itself said so much for it.  (With a
\* threshold of zero a confidence below zero, cut to its range, would pass.)
THEOREM AcceptedReadingsAreSound ==
    ASSUME Threshold > 0
    PROVE  Spec => []AcceptedIsSound
<1>1. IInv => AcceptedIsSound
  <2>1. SUFFICES ASSUME IInv, reading # None, reading.of = photos,
                        reading.status = "accepted"
                 PROVE  /\ answer \in Output
                        /\ answer.meter /\ answer.display /\ ~answer.retake
                        /\ answer.quality # "poor"
                        /\ answer.digits \in MinDigits..MaxDigits /\ ~answer.asSerial
                        /\ answer.reading = "same" /\ reading.value = answer.reading
                        /\ answer.confidence >= Threshold
    BY DEF AcceptedIsSound
  <2>2. /\ answer \in Replies /\ StatusOf(Parsed(answer)) = "accepted"
        /\ reading.value = Parsed(answer).reading
    BY <2>1 DEF IInv
  <2>3. /\ answer \in Output
        /\ answer.meter /\ answer.display /\ ~answer.retake /\ answer.quality # "poor"
        /\ answer.digits \in MinDigits..MaxDigits /\ ~answer.asSerial
        /\ answer.reading = "same" /\ answer.confidence >= Threshold
    BY <2>2, AcceptedReply
  <2>4. reading.value = answer.reading
    BY <2>2, <2>3, ParsedReply, NormalisedFields
  <2>5. QED  BY <2>3, <2>4
<1>2. QED  BY <1>1, PipelineInvariant, PTL

\* A value that is stored is the model's; without an answer of its schema there is none,
\* and an answer that makes no sense leaves a rejected reading.
THEOREM ReadingsAreNotMadeUp == Spec => []NothingIsMadeUp
<1>1. IInv => NothingIsMadeUp
  <2>1. SUFFICES ASSUME IInv, reading # None, reading.of = photos
                 PROVE  /\ answer \in Output => reading.value = answer.reading
                        /\ answer \in NoAnswer =>
                             reading.status = "rejected" /\ reading.value = None
    BY DEF NothingIsMadeUp, NoAnswer
  <2>2. /\ answer \in Replies /\ reading.status = StatusOf(Parsed(answer))
        /\ reading.value = Parsed(answer).reading
    BY <2>1 DEF IInv
  <2>3. QED  BY <2>2, ParsedReply, NormalisedFields
<1>2. QED  BY <1>1, PipelineInvariant, PTL

=============================================================================

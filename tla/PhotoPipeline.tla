--------------------------- MODULE PhotoPipeline ---------------------------
(***************************************************************************)
(* From a photo to the reading it is stored as: the submission endpoint    *)
(* (routers/meters.py) around vision/preprocessing.py, vision/detection.py,*)
(* providers/gemini_provider.py and vision/validation.py.  One resident    *)
(* sends one photo after another for one billing period; ReadingCycle has  *)
(* what else happens to a reading, and takes the results as given.         *)
(*                                                                         *)
(* A photo is usable or not; what the model says of it is told apart as far*)
(* as validate_output does.                                                *)
(***************************************************************************)
EXTENDS Integers

CONSTANTS
    None,           \* a field that the model left out; no reading
    Letters,        \* text that is not a number
    DigitCounts,    \* lengths of raw_digits that are explored
    MinDigits, MaxDigits,
    Confidences,    \* that the model states, in hundredths: not always of its range
    Threshold,      \* CONFIDENCE_THRESHOLD
    MaxPhotos       \* bound: photos that are explored

ASSUME PhotoAssumption ==
    /\ None # Letters /\ {None, Letters} \cap DigitCounts = {}
    /\ DigitCounts \subseteq Nat
    /\ Confidences \subseteq Int
    /\ Threshold \in 0..100
    /\ {MinDigits, MaxDigits, MaxPhotos} \subseteq Nat

VARIABLES
    photos,     \* photos sent so far
    at,         \* what is being done: a stage with what it has in hand
    answer,     \* what came of asking the model about the latest photo
    reading     \* the row of the period, or None

vars == <<photos, at, answer, reading>>

\* raw_digits: not digits at all, or so many.  reading: not a number, or a number
\* that has those digits or others.  asSerial: the serial number is the same text.
Output == [meter: BOOLEAN, display: BOOLEAN,
           digits: {None, Letters} \cup DigitCounts,
           reading: {None, Letters, "same", "other"},
           asSerial: BOOLEAN, confidence: Confidences \cup {0, 100},
           quality: {"acceptable", "poor", "unknown", "misspelt"}, retake: BOOLEAN]

\* unreached: the key is refused, the quota used up, the service down or out of
\* time, the network gone.  unreadable: an answer that is empty or no JSON.
\* unfit: JSON that is not an object of the schema.
NoAnswer == [none: {"unreached", "unreadable", "unfit"}]

Idle == [op |-> "idle"]

Reading == [status: {"accepted", "needs_review", "rejected"},
            value: {None, Letters, "same", "other"}, of: Nat]

Stage ==
    {Idle}
    \cup [op: {"check", "prepare", "await", "parse"}]
    \cup [op: {"judge"}, output: Output]
    \cup [op: {"store"}, status: {"accepted", "needs_review", "rejected"}, output: Output]

TypeOK ==
    /\ photos \in 0..MaxPhotos
    /\ at \in Stage
    /\ answer \in {None} \cup NoAnswer \cup Output
    /\ reading \in {None} \cup Reading

Init == photos = 0 /\ at = Idle /\ answer = None /\ reading = None

-----------------------------------------------------------------------------
(* Upload and preprocessing.                                               *)

\* Whatever the pipeline has made of a photo, another may be sent (Resubmittable of
\* ReadingCycle).
Submit ==
    /\ at = Idle
    /\ photos < MaxPhotos
    /\ at' = [op |-> "check"]
    /\ photos' = photos + 1
    /\ answer' = None
    /\ UNCHANGED reading

\* validate_image_upload: a file that is empty, too large, broken or of another
\* format is answered 422.
CheckUpload ==
    /\ at.op = "check"
    /\ at' \in {[op |-> "prepare"], Idle}
    /\ UNCHANGED <<photos, answer, reading>>

\* decode_image, resize_max_dimension and the variants: a file that Pillow knows may
\* be one that OpenCV cannot decode, and one that is very long and narrow is scaled
\* to no pixels; the request fails.
Preprocess ==
    /\ at.op = "prepare"
    /\ at' \in {[op |-> "await"], Idle}
    /\ UNCHANGED <<photos, answer, reading>>

-----------------------------------------------------------------------------
(* The model's answer.                                                     *)

\* extract_reading: every exception of the SDK and every unreadable answer becomes a
\* ProviderError, which analyze_meter_image takes for an answer without a meter in it.
Answer ==
    /\ at.op = "await"
    /\ answer' \in Output \cup NoAnswer
    /\ at' = [op |-> "parse"]
    /\ UNCHANGED <<photos, reading>>

\* _fallback_output
Fallback ==
    [meter |-> FALSE, display |-> FALSE, digits |-> None, reading |-> None,
     asSerial |-> FALSE, confidence |-> 0, quality |-> "unknown", retake |-> TRUE]

\* Mutant: what a field lacks is taken from the defaults of a good answer.
HopefulFallback == [Fallback EXCEPT !.meter = TRUE, !.retake = FALSE]

\* Confidence is cut to its range before it is judged.
Normalised(output) ==
    [output EXCEPT
       !.confidence = IF @ < 0 THEN 0 ELSE IF @ > 100 THEN 100 ELSE @,
       !.quality = IF @ \in {"acceptable", "poor"} THEN @ ELSE "unknown"]

\* Mutant: an answer outside the schema is read with its defaults.
ParsedHopefully(reply) ==
    IF reply \in NoAnswer THEN HopefulFallback ELSE Normalised(reply)

Parsed(reply) == IF reply \in NoAnswer THEN Fallback ELSE Normalised(reply)

Parse ==
    /\ at.op = "parse"
    /\ at' = [op |-> "judge", output |-> Parsed(answer)]
    /\ UNCHANGED <<photos, answer, reading>>

-----------------------------------------------------------------------------
(* validate_output.                                                        *)

\* Mutant: the number need not have the digits.
FlawedLoosely(output) ==
    \/ output.reading = None \/ output.digits = None
    \/ output.digits = Letters
    \/ output.reading = Letters
    \/ output.digits \notin MinDigits..MaxDigits

\* The reading and its digits: both there, in format, agreeing, of a likely length.
Flawed(output) ==
    \/ output.reading = None \/ output.digits = None
    \/ output.digits = Letters
    \/ output.reading \in {Letters, "other"}
    \/ output.digits \notin MinDigits..MaxDigits

\* The digits are those of the serial number.
Confused(output) == output.asSerial /\ output.digits # None

Doubtful(output) ==
    \/ ~output.display
    \/ output.retake
    \/ output.quality = "poor"
    \/ output.confidence \notin 0..100
    \/ output.confidence < Threshold

StatusOf(output) ==
    IF ~output.meter THEN "rejected"
    ELSE IF Flawed(output) \/ Confused(output) \/ Doubtful(output) THEN "needs_review"
    ELSE "accepted"

Judge ==
    /\ at.op = "judge"
    /\ at' = [op |-> "store", status |-> StatusOf(at.output), output |-> at.output]
    /\ UNCHANGED <<photos, answer, reading>>

\* Decimal(result.reading): there are texts that the pattern refuses and Decimal
\* takes ("-5", "1e3"), and others that it does not.
Decimals(value) == IF value = Letters THEN BOOLEAN ELSE {TRUE}

\* The reading of any result is stored; one that is no number fails the request.
Store ==
    /\ at.op = "store"
    /\ \E number \in Decimals(at.output.reading) :
         reading' = IF number
                    THEN [status |-> at.status, value |-> at.output.reading, of |-> photos]
                    ELSE reading
    /\ at' = Idle
    /\ UNCHANGED <<photos, answer>>

-----------------------------------------------------------------------------

Step == CheckUpload \/ Preprocess \/ Answer \/ Parse \/ Judge \/ Store

Next == Submit \/ Step

Spec == Init /\ [][Next]_vars
=============================================================================

----------------------------- MODULE SseDecoder -----------------------------
(* IncrementalSseDecoder (packages/normalizers/src/sse.ts): a body arrives in   *)
(* chunks that may be cut anywhere, also between the two characters of a line   *)
(* end.  A character is a line end of one of the two kinds or "x", any other.   *)
(* Of a line only its length is kept, and a frame is the sequence of its lines. *)
(* The limit on the buffered characters, which does depend on how a body is cut, *)
(* and the decoding of UTF-8 are left out.                                       *)
EXTENDS Naturals, Sequences, SequencesExt, TLC

CONSTANTS MaxText,        \* bound on the characters of a body
          FrameLimit,     \* maximumFrameCharacters
          CountLimit      \* maximumFrames

Characters == {"x", "CR", "LF"}

VARIABLES arrived,     \* every character pushed so far
          textBuffer,  \* characters of which no line was made yet
          frameLines,  \* lengths of the lines of the frame that is open
          dispatched,  \* the frames handed out
          phase        \* "idle", "draining", "flushing", "finished", "failed"

vars == <<arrived, textBuffer, frameLines, dispatched, phase>>

Init == /\ arrived = <<>> /\ textBuffer = <<>>
        /\ frameLines = <<>> /\ dispatched = <<>>
        /\ phase = "idle"

Chunks == UNION {[1 .. n -> Characters] : n \in 1 .. MaxText}

Push == /\ phase = "idle"
        /\ \E chunk \in Chunks :
              /\ Len(arrived) + Len(chunk) <= MaxText
              /\ arrived' = arrived \o chunk
              /\ textBuffer' = textBuffer \o chunk
        /\ phase' = "draining"
        /\ UNCHANGED <<frameLines, dispatched>>

Finish == /\ phase = "idle"
          /\ phase' = "flushing"
          /\ UNCHANGED <<arrived, textBuffer, frameLines, dispatched>>

LineEnds(text) == {i \in DOMAIN text : text[i] # "x"}

FirstLineEnd(text) == CHOOSE i \in LineEnds(text) : \A j \in LineEnds(text) : i <= j

(* The buffer is taken as it is, half a line end or not.                        *)
NeverUndecided(text) == FALSE

(* A CR that ends the buffer may be half of a line end: it waits for the rest.  *)
Undecided(text) ==
    /\ LineEnds(text) # {}
    /\ FirstLineEnd(text) = Len(text)
    /\ Last(text) = "CR"

LineEndLength(text, i) ==
    IF text[i] = "CR" /\ i < Len(text) /\ text[i + 1] = "LF" THEN 2 ELSE 1

Total(lines) == FoldLeft(LAMBDA sum, length : sum + length + 1, 0, lines)

(* A line goes to the open frame, unless the frame gets too long.               *)
AcceptLine(length) ==
    IF Total(Append(frameLines, length)) > FrameLimit
    THEN phase' = "failed" /\ UNCHANGED <<frameLines, dispatched>>
    ELSE frameLines' = Append(frameLines, length) /\ UNCHANGED <<dispatched, phase>>

(* An empty line closes the open frame, unless there were too many of them.     *)
DispatchFrame ==
    CASE frameLines = <<>> -> UNCHANGED <<frameLines, dispatched, phase>>
      [] frameLines # <<>> /\ Len(dispatched) >= CountLimit ->
            phase' = "failed" /\ UNCHANGED <<frameLines, dispatched>>
      [] OTHER -> /\ dispatched' = Append(dispatched, frameLines)
                  /\ frameLines' = <<>>
                  /\ UNCHANGED phase

DrainLine ==
    /\ phase \in {"draining", "flushing"}
    /\ LineEnds(textBuffer) # {}
    /\ ~(Undecided(textBuffer) /\ phase = "draining")
    /\ LET i == FirstLineEnd(textBuffer)
       IN /\ textBuffer' = SubSeq(textBuffer, i + LineEndLength(textBuffer, i),
                                  Len(textBuffer))
          /\ IF i = 1 THEN DispatchFrame ELSE AcceptLine(i - 1)
    /\ UNCHANGED arrived

StopDraining ==
    /\ phase = "draining"
    /\ LineEnds(textBuffer) = {} \/ Undecided(textBuffer)
    /\ phase' = "idle"
    /\ UNCHANGED <<arrived, textBuffer, frameLines, dispatched>>

(* The rest of the buffer is a line without an end.                             *)
FlushRest ==
    /\ phase = "flushing"
    /\ LineEnds(textBuffer) = {} /\ textBuffer # <<>>
    /\ AcceptLine(Len(textBuffer))
    /\ textBuffer' = <<>>
    /\ UNCHANGED arrived

(* What is still in the open frame is reported as incomplete.                   *)
StopFlushing ==
    /\ phase = "flushing" /\ textBuffer = <<>>
    /\ phase' = "finished"
    /\ UNCHANGED <<arrived, textBuffer, frameLines, dispatched>>

Next == Push \/ Finish \/ DrainLine \/ StopDraining \/ FlushRest \/ StopFlushing

Spec == Init /\ [][Next]_vars
-----------------------------------------------------------------------------
TypeOK ==
    /\ Len(arrived) <= MaxText
    /\ phase \in {"idle", "draining", "flushing", "finished", "failed"}
    /\ Len(dispatched) <= CountLimit
    /\ Total(frameLines) <= FrameLimit

(* The body read at once.  After some of its characters there is a line of some *)
(* length, the lines of the open frame, and the frames before it.  The two      *)
(* characters of a line end are one, and an empty line ends a frame.            *)
Ended(seen) ==
    CASE seen.line > 0 -> [seen EXCEPT !.line = 0, !.open = Append(@, seen.line)]
      [] seen.line = 0 /\ seen.open # <<>> ->
            [seen EXCEPT !.open = <<>>, !.all = Append(@, seen.open)]
      [] OTHER -> seen

ReadNext(text, n, seen) ==
    CASE text[n] = "x" -> [seen EXCEPT !.line = @ + 1]
      [] text[n] = "LF" /\ n > 1 /\ text[n - 1] = "CR" -> seen
      [] OTHER -> Ended(seen)

Reading(text) ==
    LET read[n \in 0 .. Len(text)] ==
            IF n = 0 THEN [line |-> 0, open |-> <<>>, all |-> <<>>]
            ELSE ReadNext(text, n, read[n - 1])
    IN  read

(* However the transport cut the body, the decoder hands out the same frames    *)
(* and the same incomplete rest as for the whole body at once, and never a frame *)
(* that is not part of it (sse.ts and its test "is invariant to every transport  *)
(* split").                                                                      *)
SplitsAreInvisible ==
    LET whole == Reading(arrived)[Len(arrived)]
    IN /\ IsPrefix(dispatched, whole.all)
       /\ phase = "finished" =>
             /\ dispatched = whole.all
             /\ frameLines = IF whole.line > 0 THEN Append(whole.open, whole.line)
                             ELSE whole.open
=============================================================================

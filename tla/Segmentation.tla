---------------------------- MODULE Segmentation ----------------------------
(***************************************************************************)
(* The text a final speech-to-text result goes through before translation: *)
(* the SegmentStabilizer of src/src/pipeline/segmentation.rs.              *)
(*                                                                         *)
(* A text is a sequence of runs.  A run is a stretch of characters with no *)
(* boundary character inside it; `mark' says what follows it: nothing, a   *)
(* character where a long subtitle may be cut ("comma"), or one that ends  *)
(* a sentence ("stop").  `win' and `pos' record where the run was heard:   *)
(* the speech window it was transcribed from and its place in that window. *)
(* They are history, read by properties and never by the code.             *)
(***************************************************************************)
EXTENDS Integers, Sequences, FiniteSets, SequencesExt

CONSTANTS Words,        \* what a run can say
          TinyWords,    \* the words of one character; the others have MIN_CHARS_FOR_COMMIT or more
          MaxRuns,      \* runs that fit MAX_JAPANESE_CHARS
          DedupWindow   \* DEDUP_WINDOW_SIZE

ASSUME SegmentationAssumption ==
  /\ TinyWords \subseteq Words
  /\ MaxRuns \in Nat \ {0}
  /\ DedupWindow \in Nat \ {0}

Marks == {"none", "comma", "stop"}
Content == [word : Words, mark : Marks]
Run == [win : Nat, pos : Nat \ {0}, word : Words, mark : Marks]

\* The text of an utterance heard in window w.
Heard(w, utterance) ==
  [i \in 1..Len(utterance) |->
     [win |-> w, pos |-> i, word |-> utterance[i].word, mark |-> utterance[i].mark]]

RunsOf(text) == {text[i] : i \in 1..Len(text)}

-----------------------------------------------------------------------------
\* normalize_for_dedup: what is said, without the closing punctuation.
Normalize(text) ==
  [i \in 1..Len(text) |->
     [word |-> text[i].word, mark |-> IF i = Len(text) THEN "none" ELSE text[i].mark]]

\* Characters of a text of tiny words: one for each word and each mark, and the
\* blank that joins what was heard in two windows.
Chars(text) ==
  LET blanks == {i \in 1 .. Len(text) - 1 : text[i].win # text[i + 1].win}
      marked == {i \in 1 .. Len(text) : text[i].mark # "none"}
  IN  Len(text) + Cardinality(marked) + Cardinality(blanks)

\* Too short to be shown alone.
TooShort(text) ==
  /\ \A i \in 1 .. Len(text) : text[i].word \in TinyWords
  /\ Chars(text) < 4   \* MIN_CHARS_FOR_COMMIT

\* split_at_boundary: where the first piece of the text after `from' ends.
NextCut(text, from) ==
  LET limit == from + MaxRuns
      marked == {i \in from + 1 .. limit : i <= Len(text) /\ text[i].mark # "none"}
  IN  IF Len(text) <= limit THEN Len(text)
      ELSE IF marked # {} THEN CHOOSE i \in marked : \A j \in marked : j <= i
      ELSE limit

\* split_all_at_boundaries: the pieces of a long text, each within the limit.
SplitAll(text) ==
  LET cut[i \in 0..Len(text)] == IF i = 0 THEN 0 ELSE NextCut(text, cut[i - 1])
      pieces == {i \in 1..Len(text) : cut[i - 1] < Len(text)}
  IN  [i \in 1..Cardinality(pieces) |-> SubSeq(text, cut[i - 1] + 1, cut[i])]

-----------------------------------------------------------------------------
\* A text with the number of the window it is attributed to.  The stabilizer's
\* buffer holds one; the empty text stands for an empty buffer.
NoFragment == [text |-> <<>>, ctx |-> 0]

\* MUTANT of MergePending: the buffered text is put at the end.
MergeBehind(pending, new) ==
  IF pending = NoFragment THEN new
  ELSE [text |-> new.text \o pending.text, ctx |-> pending.ctx]

\* The buffered short text in front of the new one.  merged_with keeps the
\* window number of the first.
MergePending(pending, new) ==
  IF pending = NoFragment THEN new
  ELSE [text |-> pending.text \o new.text, ctx |-> pending.ctx]

\* The text was committed lately: one of the last DedupWindow keys is its own.
IsDuplicate(recent, text) == \E i \in 1..Len(recent) : recent[i] = Normalize(text)

\* filter_with_context, in its last branch: every piece of a long text carries
\* the context and the deduplication key of the whole.
Pieces(fragment) ==
  LET parts == SplitAll(fragment.text)
  IN  [i \in 1..Len(parts) |->
         [text |-> parts[i], ctx |-> fragment.ctx, key |-> Normalize(fragment.text)]]

\* record_committed_key and record_dedup: a first-in first-out window.
RecordKey(recent, key) ==
  IF key = <<>> \/ \E i \in 1..Len(recent) : recent[i] = key THEN recent
  ELSE LET longer == Append(recent, key)
       IN  IF Len(longer) > DedupWindow THEN Tail(longer) ELSE longer

RecordKeys(recent, keys) ==
  LET after[n \in 0..Len(keys)] ==
        IF n = 0 THEN recent ELSE RecordKey(after[n - 1], keys[n])
  IN  after[Len(keys)]
=============================================================================

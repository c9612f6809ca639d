------------------------- MODULE SentenceAggregator -------------------------
(***************************************************************************)
(* src/src/pipeline/sentence_aggregator.rs: stabilized pieces of text are  *)
(* joined until a sentence ends, so that only whole sentences are sent to  *)
(* translation.  What follows the last sentence end is held.               *)
(***************************************************************************)
EXTENDS Segmentation

\* An AggregatedSegment: its text, the window it is attributed to, the
\* deduplication keys to record once it is shown, and its split_index.
\* `held' is one too; the empty text stands for "nothing held".
NoSegment == [text |-> <<>>, ctx |-> 0, keys |-> <<>>, split |-> 0]

\* The held text in front of the new piece: the latest context, all the keys.
Join(held, piece) ==
  [text |-> held.text \o piece.text, ctx |-> piece.ctx,
   keys |-> Append(held.keys, piece.key), split |-> held.split]

\* The places in the text where a sentence ends, in their order.
Stops(text) ==
  LET before[n \in 0..Len(text)] ==
        IF n = 0 THEN <<>>
        ELSE IF text[n].mark = "stop" THEN Append(before[n - 1], n) ELSE before[n - 1]
  IN  before[Len(text)]

TailOf(text) ==
  LET stops == Stops(text)
  IN  IF stops = <<>> THEN text ELSE SubSeq(text, Last(stops) + 1, Len(text))

\* split_and_hold: the sentences of the joined text.  They carry the keys only
\* if no text is left over.
Sentences(joined) ==
  LET stops == Stops(joined.text)
      keys == IF TailOf(joined.text) = <<>> THEN joined.keys ELSE <<>>
  IN  [i \in 1..Len(stops) |->
         [text |-> SubSeq(joined.text, (IF i = 1 THEN 0 ELSE stops[i - 1]) + 1, stops[i]),
          ctx |-> joined.ctx, keys |-> keys, split |-> joined.split + i - 1]]

\* MUTANT of HeldAfter: the tail is dropped.
HeldForgotten(joined) == NoSegment

\* split_and_hold: what is held after it.
HeldAfter(joined) ==
  LET tail == TailOf(joined.text)
  IN  IF tail = <<>> THEN NoSegment
      ELSE [text |-> tail, ctx |-> joined.ctx, keys |-> joined.keys,
            split |-> joined.split + Len(Stops(joined.text))]
=============================================================================

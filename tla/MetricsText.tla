---------------------------- MODULE MetricsText ----------------------------
(***************************************************************************)
(* The text of the model server's /metrics, as gateway/fake_vllm.py writes *)
(* it, and what parse_metric and parse_labelled_metric of                  *)
(* gateway/backpressure.py read out of it.  The poller takes the engine's  *)
(* queue from there.                                                       *)
(*                                                                         *)
(* Abstractions.  A line is the tokens before its last word, and that word *)
(* if it is a number: a set of at most one.  A name is several tokens, so  *)
(* that one may begin with another; so is a label.  Of the metrics there   *)
(* are those that are read and one more, and comments are their TYPE lines.*)
(***************************************************************************)
EXTENDS Integers, SequencesExt

RunningGauge == <<"num", "requests", "running">>
WaitingGauge == <<"num", "requests", "waiting">>
WaitingByReason == WaitingGauge \o <<"by", "reason">>
Totals == <<"request", "success", "total">>

Label(key, val) == <<key, "=", val>>
Block(labels) == IF labels = <<>> THEN <<>> ELSE <<"{">> \o labels \o <<"}">>

Sample(name, labels, n) == [tokens |-> name \o Block(labels), number |-> {n}]
Comment(name) == [tokens |-> <<"#", "TYPE">> \o name, number |-> {}]

\* render_metrics, of an engine with so much running and waiting, whose samples
\* have these labels; some families may be missing.
RenderMetrics(run, wait, labels, missing) ==
    LET Reason(r) == labels \o Label("reason", r)
        Family(name, samples) ==
            IF name \in missing THEN <<>> ELSE <<Comment(name)>> \o samples
    IN  Family(RunningGauge, <<Sample(RunningGauge, labels, run)>>)
        \o Family(WaitingGauge, <<Sample(WaitingGauge, labels, wait)>>)
        \o Family(WaitingByReason, <<Sample(WaitingByReason, Reason("capacity"), wait),
                                     Sample(WaitingByReason, Reason("deferred"), 0)>>)
        \o Family(Totals, <<Sample(Totals, labels, run + wait)>>)

-----------------------------------------------------------------------------
(* The patterns *)

\* {[^}]*}
IsBlock(tokens) ==
    /\ Len(tokens) >= 2 /\ Head(tokens) = "{"
    /\ \A i \in DOMAIN tokens : tokens[i] = "}" <=> i = Len(tokens)

Rest(l, name) == SubSeq(l.tokens, Len(name) + 1, Len(l.tokens))

\* A bug: the pattern does not ask for the end of the name.
MatchesMutant(l, name) == IsPrefix(name, l.tokens) /\ l.number # {}

\* _METRIC_LINE: the line begins with the name, then there may be a block of
\* labels, and nothing else, before a number that ends it.
Matches(l, name) ==
    /\ IsPrefix(name, l.tokens) /\ l.number # {}
    /\ Rest(l, name) = <<>> \/ IsBlock(Rest(l, name))

\* parse_metric: the sum over the lines, whatever their labels.  A reading is
\* a set of at most one number, the empty one for None.
ParseMetric(text, name) ==
    LET Matching(l) == Matches(l, name)
        matches == SelectSeq(text, Matching)
        Add(l, total) == total + CHOOSE n \in l.number : TRUE
    IN  IF matches = <<>> THEN {} ELSE {FoldSeq(Add, 0, matches)}

\* parse_labelled_metric: the first line with a block that has the label.
ParseLabelledMetric(text, name, key, val) ==
    LET Matching(l) ==
            /\ Matches(l, name)
            /\ \E i, j \in DOMAIN Rest(l, name) : SubSeq(Rest(l, name), i, j) = Label(key, val)
        matches == SelectSeq(text, Matching)
    IN  IF matches = <<>> THEN {} ELSE Head(matches).number
=============================================================================

---------------------------- MODULE StreamClient ----------------------------
(***************************************************************************)
(* One call of the streaming bench client (bench/fn-stream-client.py).     *)
(*                                                                         *)
(* The client converges on a prompt, reads the engine's histograms, lets   *)
(* its workers send the requests of the batch, and reads the histograms    *)
(* again: the difference is published as the queue wait and the prefill of *)
(* the batch. Each worker drains its slice of the requests, and what it    *)
(* streams is reduced to a fingerprint. Times and the text of prompts are  *)
(* left out: a histogram is the set of requests it has counted, a string   *)
(* is short, and sha256 tells whatever it is given. The engine is external.*)
(***************************************************************************)
EXTENDS Integers, Sequences, FiniteSets, FiniteSetsExt, SequencesExt

CONSTANTS
  Calls,      \* the command lines: records of --concurrency and --requests
  Attempts,   \* how often converge_prompt probes
  Engines,    \* the builds of the engine: the shape of their chunks, the string of each
              \* token, the completions cut into chunks, and what a scrape may expose
  None        \* Python's None

Metric == {"queue", "prefill", "inference", "decode"}

ASSUME ClientAssumption ==
  /\ Attempts \in Nat
  /\ \A c \in Calls : c.concurrency \in Int /\ c.requests \in Int

AtLeastOne(n) == IF n < 1 THEN 1 ELSE n

VARIABLES
  call,     \* args
  engine,   \* the build that serves
  counted,  \* samples the engine's histograms hold
  late,     \* samples of finished or abandoned requests not yet counted
  main,     \* the place of the main thread
  tries,    \* probes of converge_prompt so far
  before, after,  \* the two scrapes: the samples seen and the histograms shown, or None
  place,    \* the place of each worker
  slice,    \* the requests each worker has yet to send
  results,  \* per request: the record of its completion, or None
  errors,   \* the requests that failed, in the order they did
  out       \* what was printed: the requests with a row and the split, or None

knobs   == <<call, engine>>
server  == <<counted, late>>
scrapes == <<before, after>>
pool    == <<place, slice, results, errors>>
vars    == <<knobs, server, main, tries, scrapes, pool, out>>

Worker == 1..AtLeastOne(call.concurrency)
Request == 0..(AtLeastOne(call.requests) - 1)

-----------------------------------------------------------------------------
\* A list built while counting through the requests: the numbers of a set, in order.
InOrder(S) ==
  CHOOSE s \in [1..Cardinality(S) -> S] :
    ToSet(s) = S /\ \A j, k \in DOMAIN s : j < k => s[j] < s[k]

\* Samples. One request of the past stands for the engine's lifetime.

Past == [who |-> "past", n |-> 0]
Probe(k) == [who |-> "probe", n |-> k]
Batch(i) == [who |-> "batch", n |-> i]
Samples == {Past} \cup {Probe(k) : k \in 1..Attempts} \cup {Batch(i) : i \in Request}

-----------------------------------------------------------------------------
\* What a stream is reduced to. A chunk carries the strings and the ids of its
\* tokens under logprobs, ids on the choice itself (direct), or its text.

Extracted(chunk) ==
  LET ids == IF chunk.ids # <<>> THEN chunk.ids ELSE chunk.direct
  IN  [ids |-> ids,
       strs |-> IF chunk.strs = <<>> /\ ids = <<>> /\ chunk.text # <<>>
                THEN <<chunk.text>> ELSE chunk.strs]

\* The tokens of a chunk, a missing half being None or the empty string.
TokensOf(chunk) ==
  LET e == Extracted(chunk)
  IN  [k \in 1..Max({Len(e.ids), Len(e.strs)}) |->
        [id  |-> IF k <= Len(e.ids) THEN e.ids[k] ELSE None,
         str |-> IF k <= Len(e.strs) THEN e.strs[k] ELSE <<>>]]

Streamed(chunks) == FlattenSeq([k \in 1..Len(chunks) |-> TokensOf(chunks[k])])

\* The bytes that are hashed: "i:" or "s:", the decimal number or the string, and ";", one
\* item after the other and nothing escaped. A number counts as one symbol, and so do
\* the two tags and the end of an item, also where a string holds one.
IdTag == -1
StrTag == -2
End == -3
Item(tag, body) == <<tag>> \o body \o <<End>>
Hashed(tag, bodies) == FlattenSeq([k \in 1..Len(bodies) |-> Item(tag, bodies[k])])

\* MUTANT: the empty sequence is hashed like any other.
FingerprintOfNothing(chunks) ==
  LET s == Streamed(chunks)
  IN  IF \A k \in 1..Len(s) : s[k].id # None
      THEN <<Hashed(IdTag, [k \in 1..Len(s) |-> <<s[k].id>>])>>
      ELSE <<Hashed(StrTag, [k \in 1..Len(s) |-> s[k].str])>>

\* Ids when every token has one, strings otherwise; no digest for no token.
Fingerprint(chunks) ==
  LET s == Streamed(chunks)
  IN  IF s = <<>> THEN <<>>
      ELSE IF \A k \in 1..Len(s) : s[k].id # None
           THEN <<Hashed(IdTag, [k \in 1..Len(s) |-> <<s[k].id>>])>>
           ELSE <<Hashed(StrTag, [k \in 1..Len(s) |-> s[k].str])>>

\* The engine sends each piece of a completion in one of four shapes: token by token, or as
\* the text of the whole piece.
Shapes == {"both", "strs", "direct", "text"}
SendsIds(e) == e.shape \in {"both", "direct"}
Blank == [ids |-> <<>>, strs |-> <<>>, direct |-> <<>>, text |-> <<>>]
Strs(e, tokens) == [k \in 1..Len(tokens) |-> e.text[tokens[k]]]
Written(e, tokens) == FlattenSeq(Strs(e, tokens))
Chunk(e, tokens) ==
  CASE e.shape = "both"   -> [Blank EXCEPT !.ids = tokens, !.strs = Strs(e, tokens)]
    [] e.shape = "strs"   -> [Blank EXCEPT !.strs = Strs(e, tokens)]
    [] e.shape = "direct" -> [Blank EXCEPT !.direct = tokens]
    [] e.shape = "text"   -> [Blank EXCEPT !.text = Written(e, tokens)]

\* The record of a completion: the tokens and the text of what it said are observed.
Record(e, cut) ==
  [said  |-> FlattenSeq(cut),
   text  |-> Written(e, FlattenSeq(cut)),
   print |-> Fingerprint([k \in 1..Len(cut) |-> Chunk(e, cut[k])])]

\* No string of the build holds what ends an item of the hash.
Legible(e) == \A t \in DOMAIN e.text : End \notin ToSet(e.text[t])

\* A token is a number and has a string.
ASSUME EngineAssumption ==
  /\ None \notin Nat
  /\ \A e \in Engines :
       /\ e.shape \in Shapes
       /\ DOMAIN e.text \subseteq Nat
       /\ \A t \in DOMAIN e.text : e.text[t] \in Seq(Int)
       /\ \A cut \in e.cuts :
            /\ cut \in Seq(Seq(DOMAIN e.text))
            /\ Record(e, cut) # None

-----------------------------------------------------------------------------
\* The split. A mean is represented by the samples it is taken over.

\* MUTANT: a first scrape that failed counts as zero.
DeltaFromZero(b, a, metric) ==
  LET base == IF b = None THEN {} ELSE IF metric \in b.shows THEN b.seen ELSE {}
      new  == IF a = None THEN {} ELSE a.seen \ base
  IN  IF a = None \/ new = {} THEN None ELSE IF metric \in a.shows THEN new ELSE None

\* The samples between two scrapes. A failed scrape is no baseline; one that does not show
\* the histogram is a baseline of zero.
Delta(b, a, metric) ==
  IF b = None \/ a = None THEN None
  ELSE LET base == IF metric \in b.shows THEN b.seen ELSE {}
       IN  IF metric \notin a.shows \/ a.seen \ base = {} THEN None ELSE a.seen \ base

Split ==
  LET direct    == Delta(before, after, "prefill")
      inference == Delta(before, after, "inference")
      decode    == Delta(before, after, "decode")
      derivable == direct = None /\ inference # None /\ decode # None
  IN  [queue   |-> Delta(before, after, "queue"),
       prefill |-> IF derivable THEN inference \cup decode ELSE direct,
       source  |-> IF before = None \/ after = None THEN "unavailable"
                   ELSE IF derivable THEN "derived" ELSE "direct"]

\* The requests that completed, in order: there is a row for each, renumbered.
Done == InOrder({i \in Request : results[i] # None})

Init ==
  /\ call \in Calls /\ engine \in Engines
  /\ counted = {Past} /\ late = {}
  /\ main = "converge" /\ tries = 0
  /\ before = None /\ after = None
  /\ place = [w \in Worker |-> "unborn"]
  /\ slice = [w \in Worker |-> <<>>]
  /\ results = [i \in Request |-> None]
  /\ errors = <<>> /\ out = None

-----------------------------------------------------------------------------
\* The main thread.

\* A prompt of no depth needs no probe, and the last one need not have fitted.
Converged ==
  /\ main = "converge" /\ tries \in {0, Attempts}
  /\ main' = "before"
  /\ UNCHANGED <<knobs, server, tries, scrapes, pool, out>>

\* One probe; it fits, fails (the client then stops probing) or asks for another.
ConvergeProbe ==
  /\ main = "converge" /\ tries < Attempts
  /\ tries' = tries + 1
  /\ late' = late \cup {Probe(tries')}
  /\ main' \in {"converge", "before"}
  /\ UNCHANGED <<knobs, counted, scrapes, pool, out>>

\* A scrape fails, or reads what the engine exposes at that moment, which need not be
\* every histogram of the build: parse_metrics takes what lines it finds.
Scrape == {None} \cup {[seen |-> counted, shows |-> shown] : shown \in engine.exposes}

ScrapeBefore ==
  /\ main = "before"
  /\ before' \in Scrape
  /\ main' = "start"
  /\ UNCHANGED <<knobs, server, tries, after, pool, out>>

\* run_concurrent deals the requests round and starts the threads.
Dealt(w) == InOrder({i \in Request : i % Cardinality(Worker) = w - 1})

\* MUTANT: no thread for an empty slice, though the barrier has a party for it.
StartWorkersBusy ==
  /\ main = "start"
  /\ slice' = [w \in Worker |-> Dealt(w)]
  /\ place' = [w \in Worker |-> IF Dealt(w) = <<>> THEN "left" ELSE "started"]
  /\ main' = "release"
  /\ UNCHANGED <<knobs, server, tries, scrapes, results, errors, out>>

StartWorkers ==
  /\ main = "start"
  /\ slice' = [w \in Worker |-> Dealt(w)]
  /\ place' = [w \in Worker |-> "started"]
  /\ main' = "release"
  /\ UNCHANGED <<knobs, server, tries, scrapes, results, errors, out>>

\* The barrier has one party for each worker and one for the main thread.
Release ==
  /\ main = "release"
  /\ \A w \in Worker : place[w] = "barrier"
  /\ place' = [w \in Worker |-> "free"]
  /\ main' = "join"
  /\ UNCHANGED <<knobs, server, tries, scrapes, slice, results, errors, out>>

Join ==
  /\ main = "join"
  /\ \A w \in Worker : place[w] = "left"
  /\ main' = IF \A i \in Request : results[i] = None THEN "failed" ELSE "after"
  /\ UNCHANGED <<knobs, server, tries, scrapes, pool, out>>

ScrapeAfter ==
  /\ main = "after"
  /\ after' \in Scrape
  /\ main' = "write"
  /\ UNCHANGED <<knobs, server, tries, before, pool, out>>

Write ==
  /\ main = "write"
  /\ out' = [rows |-> Done, split |-> Split]
  /\ main' = "ended"
  /\ UNCHANGED <<knobs, server, tries, scrapes, pool>>

MainStep ==
  \/ Converged \/ ConvergeProbe \/ ScrapeBefore \/ StartWorkers
  \/ Release \/ Join \/ ScrapeAfter \/ Write

-----------------------------------------------------------------------------
\* The workers.

Arrive(w) ==
  /\ place[w] = "started"
  /\ place' = [place EXCEPT ![w] = "barrier"]
  /\ UNCHANGED <<knobs, server, main, tries, scrapes, slice, results, errors, out>>

Ask(w) ==
  /\ place[w] = "free" /\ slice[w] # <<>>
  /\ place' = [place EXCEPT ![w] = "asking"]
  /\ late' = late \cup {Batch(Head(slice[w]))}
  /\ UNCHANGED <<knobs, counted, main, tries, scrapes, slice, results, errors, out>>

\* The stream ends; its record, with its fingerprint, is stored under the lock.
Answered(w) ==
  /\ place[w] = "asking"
  /\ \E cut \in engine.cuts : results' = [results EXCEPT ![Head(slice[w])] = Record(engine, cut)]
  /\ slice' = [slice EXCEPT ![w] = Tail(@)]
  /\ place' = [place EXCEPT ![w] = "free"]
  /\ UNCHANGED <<knobs, server, main, tries, scrapes, errors, out>>

\* MUTANT: the exception ends the worker and not the request.
ErroredWorker(w) ==
  /\ place[w] = "asking"
  /\ errors' = Append(errors, Head(slice[w]))
  /\ slice' = [slice EXCEPT ![w] = <<>>]
  /\ place' = [place EXCEPT ![w] = "free"]
  /\ UNCHANGED <<knobs, server, main, tries, scrapes, results, out>>

\* Any exception, a time-out half-way through the stream included, costs one request.
Errored(w) ==
  /\ place[w] = "asking"
  /\ errors' = Append(errors, Head(slice[w]))
  /\ slice' = [slice EXCEPT ![w] = Tail(@)]
  /\ place' = [place EXCEPT ![w] = "free"]
  /\ UNCHANGED <<knobs, server, main, tries, scrapes, results, out>>

Leave(w) ==
  /\ place[w] = "free" /\ slice[w] = <<>>
  /\ place' = [place EXCEPT ![w] = "left"]
  /\ UNCHANGED <<knobs, server, main, tries, scrapes, slice, results, errors, out>>

WorkerStep(w) == Arrive(w) \/ Ask(w) \/ Answered(w) \/ Errored(w) \/ Leave(w)

-----------------------------------------------------------------------------
\* The engine counts a request when it is done with it, which is neither before
\* nor after the client is; one that was given up may never be counted.

Count ==
  \E s \in late :
    /\ counted' = counted \cup {s}
    /\ late' = late \ {s}
    /\ UNCHANGED <<knobs, main, tries, scrapes, pool, out>>

Next == MainStep \/ (\E w \in Worker : WorkerStep(w)) \/ Count

\* Every HTTP call has a time-out, so a thread that runs goes on.
Fairness == WF_vars(MainStep) /\ WF_vars(\E w \in Worker : WorkerStep(w))

Spec == Init /\ [][Next]_vars /\ Fairness

-----------------------------------------------------------------------------
\* Properties.

\* Once the workers have left, every request of the batch has been sent exactly
\* once: it has a result or one error and never both, whatever failed and however
\* unevenly the slices were drained, and the rows are the results in order. This is
\* what lets run-matrix.sh take the number of rows for the number of completions.
EveryRequestAccounted ==
  /\ main \in {"after", "write", "ended", "failed"} =>
       /\ \A i \in Request : results[i] = None <=> i \in ToSet(errors)
       /\ Len(errors) = Cardinality(ToSet(errors))
  /\ out # None =>
       /\ Len(out.rows) = Cardinality(Request) - Len(errors)
       /\ ToSet(out.rows) = Request \ ToSet(errors)

\* A mean over the histograms named is of two scrapes that both succeeded. It leaves the
\* engine's past out, if the first of them showed those histograms.
Measured(mean, over) ==
  /\ before # None /\ after # None
  /\ mean # {} /\ over \subseteq after.shows
  /\ over \subseteq before.shows => Past \notin mean

\* A queue wait or a prefill that is published was measured, and the source column says
\* over which histograms, and when a scrape has failed: a failed scrape is never taken
\* for zero, which would publish a lifetime mean.
SplitIsMeasured ==
  out # None =>
    /\ out.split.source = "unavailable" <=> before = None \/ after = None
    /\ out.split.queue # None => Measured(out.split.queue, {"queue"})
    /\ out.split.prefill # None =>
         Measured(out.split.prefill, IF out.split.source = "direct" THEN {"prefill"}
                                     ELSE {"inference", "decode"})

\* fn-stream-client.py on its columns: "delta of the histogram across this load's batch".
NoLifetimeMean ==
  out # None => \A mean \in {out.split.queue, out.split.prefill} \ {None} : Past \notin mean

Told == {results[i] : i \in Request} \ {None}

\* What run-matrix.sh may conclude from two fingerprints of a build. With ids they are the
\* same exactly when the same tokens were said, however cut into chunks; with strings the
\* same print means the same text, if no string ends an item of the hash, and the same
\* tokens give the same print unless a build sends text, whose print depends on the
\* cut. There is no print exactly when there was nothing to hash.
FingerprintsTell ==
  /\ \A r, s \in Told :
       /\ SendsIds(engine) => (r.print = s.print <=> r.said = s.said)
       /\ Legible(engine) => (r.print = s.print => r.text = s.text \/ SendsIds(engine))
       /\ engine.shape # "text" => (r.said = s.said => r.print = s.print)
  /\ \A r \in Told :
       r.print = <<>> <=> IF engine.shape = "text" THEN r.text = <<>> ELSE r.said = <<>>

\* fingerprint_of: "an identical completion reproduces an identical fingerprint".
IdenticalReproduces == \A r, s \in Told : r.said = s.said => r.print = s.print

\* fingerprint_of: "a divergent completion ... changes it".
DivergentChanges == \A r, s \in Told : r.text # s.text => r.print # s.print

\* The call ends, with rows or with an error, whichever requests fail.
ClientEnds == <>(main \in {"ended", "failed"})
=============================================================================

--------------------------- MODULE MCStreamClient ---------------------------
EXTENDS StreamClient

MCCall(c, r) == [concurrency |-> c, requests |-> r]
MCCalls == {MCCall(2, 3), MCCall(3, 1), MCCall(0, 0)}
MCPair == {MCCall(2, 2)}

\* Two letters, a token without a string, and the two letters in one token.
MCText == <<<<65>>, <<66>>, <<>>, <<65, 66>>>>

\* Two tokens, whole or one by one, and none.
MCCuts == {<<>>, <<<<>>, <<>>>>, <<<<1, 2>>, <<>>>>, <<<<1>>, <<2>>>>}

MCEngine(shape, text, cuts, exposes) ==
  [shape |-> shape, text |-> text, cuts |-> cuts, exposes |-> exposes]

\* One build that shows a histogram only once it has a sample to show, others that lack
\* some for good.
MCEngines ==
  {MCEngine("both", MCText, MCCuts, {Metric, Metric \ {"prefill"}}),
   MCEngine("strs", MCText, {<<>>, <<<<1, 2>>>>, <<<<1>>, <<2>>>>, <<<<4>>>>},
            {{"queue", "inference", "decode"}, {"queue", "inference"}}),
   MCEngine("direct", MCText, MCCuts, {{"queue", "inference"}}),
   MCEngine("text", MCText, {<<>>, <<<<3>>>>, <<<<1, 2>>>>, <<<<1>>, <<3, 2>>>>}, {{}})}

\* A first scrape that does not show the queue's histogram yet.
MCLateEngines == {MCEngine("both", MCText, {<<<<1>>>>}, {{}, {"queue"}})}

\* A build that sends text, in pieces of any size.
MCTextEngines == {MCEngine("text", MCText, {<<<<1, 2>>>>, <<<<1>>, <<2>>>>}, {{}})}

\* A token whose string reads like the end of an item and the start of the next.
MCMarkedEngines ==
  {MCEngine("strs", <<<<65>>, <<66>>, <<65, End, StrTag, 66>>>>, {<<<<1>>, <<2>>>>, <<<<3>>>>}, {{}})}
=============================================================================

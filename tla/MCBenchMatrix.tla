--------------------------- MODULE MCBenchMatrix ---------------------------
EXTENDS BenchMatrix

\* Two loads agree, or they differ and some of their completions were silent.
MCReplies == {{"p"}, {"q", Silence}}

\* A run of the client in which nothing but silence came back is possible too.
MCSilentReplies == {{"p"}, {"p", "q"}, {Silence}}
=============================================================================

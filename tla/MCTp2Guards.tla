---------------------------- MODULE MCTp2Guards ----------------------------
EXTENDS Tp2Guards

Tensor == [stack |-> "main", layer |-> 0, part |-> "rest", leaf |-> "rest", expert |-> None,
           fp8 |-> TRUE, shape |-> <<4, 4>>, scale |-> <<2, 2>>, bytes |-> 1]
ExpertOf(s, l, i) ==
  [Tensor EXCEPT !.stack = s, !.layer = l, !.part = "expert", !.leaf = "up_proj", !.expert = i,
                 !.shape = <<3, 4>>, !.bytes = 2]
Of(s, l, p, f, sh, sc) ==
  [Tensor EXCEPT !.stack = s, !.layer = l, !.part = p, !.leaf = f, !.shape = sh, !.scale = sc]
Qk(s, l, d) == [Of(s, l, "self_attn", "index_qk_proj", <<d, 4>>, None) EXCEPT !.fp8 = FALSE]

\* Two layers and the draft layer, over the given expert numbers.
Tensors(ids) ==
  {ExpertOf("main", l, i) : l \in {0, 1}, i \in ids} \cup {ExpertOf("draft", 0, i) : i \in ids}
    \cup {Of("main", l, "shared", "rest", <<6, 4>>, <<3, 2>>) : l \in {0, 1}}
    \cup {Of("draft", 0, "shared", "rest", <<6, 4>>, <<3, 2>>),
          Of("main", 0, "linear_attn", "out_proj", <<4, 8>>, <<2, 4>>),
          Of("main", 1, "self_attn", "q_proj", <<8, 4>>, <<4, 2>>),
          Of("draft", 0, "self_attn", "q_proj", <<8, 4>>, <<4, 2>>), Qk("main", 1, 6),
          [Tensor EXCEPT !.part = "table", !.bytes = 50]}

Sound ==
  [cfg |-> [experts |-> 4, heads |-> 4, kv |-> 2, gdnK |-> 2, gdnV |-> 4, idxHeads |-> 2,
            idxKv |-> 1, idxDim |-> 2, sharedInter |-> 6, interval |-> 2],
   block |-> <<2, 2>>, types |-> {<<0, "linear_attn">>, <<1, "self_attn">>},
   tensors |-> Tensors(0..3)]

\* The sound checkpoint with one group of its facts varied.
Cfg(f, v) == [Sound EXCEPT !.cfg[f] = v]
Replaced(old, new) == [Sound EXCEPT !.tensors = (@ \ old) \cup new]
QProj == {t \in Sound.tensors : t.leaf = "q_proj" /\ t.stack = "main"}
OutProj == {t \in Sound.tensors : t.leaf = "out_proj"}

Heads == {[Sound EXCEPT !.cfg.heads = q, !.cfg.kv = k] : q \in {0, 2, 3, 4, 6, 8}, k \in {0, 1, 2, 3, 4}}
Gdn == {[Sound EXCEPT !.cfg.gdnK = k, !.cfg.gdnV = v] : k \in {0, 1, 2, 3, 4}, v \in {2, 3, 4, 6}}
Moe == {[Sound EXCEPT !.cfg.experts = e, !.tensors = Tensors(ids)] :
          e \in {3, 4, 6}, ids \in {0..2, 0..3, 0..5, {0, 1, 2, 5}, {0}}}
         \cup {Replaced({t \in Sound.tensors : t.part = "expert" /\ t.stack = "draft"}, {}),
               Replaced({ExpertOf("main", 1, 3)}, {}),
               Replaced({ExpertOf("main", 0, 0)}, {[ExpertOf("main", 0, 0) EXCEPT !.bytes = 30]}),
               Replaced({t \in Sound.tensors : t.part = "shared" /\ t.layer = 1}, {})}
Numbers == {Cfg("sharedInter", x) : x \in {4, 5, 8, None}} \cup {Cfg("idxHeads", x) : x \in {1, 3}}
             \cup {Cfg("interval", x) : x \in {None, 3}} \cup {Cfg("heads", None)}
Blocks == {[Sound EXCEPT !.block = b] : b \in {None, <<4, 4>>, <<3, 2>>, <<2, 1>>}}
           \cup {Replaced(QProj, {Of("main", 1, "self_attn", "q_proj", <<d, 4>>, <<CeilDiv(d, 2), 2>>)}) :
                   d \in {4, 6, 7, 12}}
           \cup {Replaced(OutProj, {Of("main", 0, "linear_attn", "out_proj", <<4, d>>, <<2, CeilDiv(d, 2)>>)}) :
                   d \in {6, 7}}
           \cup {Replaced(QProj, {[t EXCEPT !.fp8 = FALSE, !.scale = None, !.shape = <<6, 4>>] : t \in QProj}),
                 Replaced({}, {Of("main", 0, "rest", "rest", <<4, 4>>, <<1, 2>>)}),
                 Replaced({t \in Sound.tensors : t.leaf = "index_qk_proj"}, {Qk("main", 1, 8)})}
\* Blocks of three rows, and a fused tensor on the grid: its 6 rows halve at the edge of a
\* block, its 4 query rows do not.
FusedOdd ==
  LET fit(t) == IF t.leaf = "q_proj" THEN [t EXCEPT !.shape = <<12, 4>>]
                ELSE IF t.leaf = "index_qk_proj" THEN [t EXCEPT !.fp8 = TRUE, !.scale = <<2, 2>>]
                ELSE t
  IN  [Sound EXCEPT
         !.block = <<3, 2>>, !.cfg.sharedInter = 4,
         !.tensors = {[t EXCEPT !.scale = <<CeilDiv(t.shape[1], 3), CeilDiv(t.shape[2], 2)>>] :
                        t \in {fit(u) : u \in @}}]
Layers == {[Sound EXCEPT !.types = x] : x \in {None, {<<0, "self_attn">>, <<1, "self_attn">>}}}
           \cup {Replaced({}, {Of("main", 0, "self_attn", "rest", <<4, 4>>, <<2, 2>>)}),
                 Replaced({}, {Of("main", 2, "self_attn", "rest", <<4, 4>>, <<2, 2>>)}),
                 Replaced({}, {Of("main", 3, "self_attn", "rest", <<4, 4>>, <<2, 2>>)})}

Library == {Sound, FusedOdd} \cup Heads \cup Gdn \cup Moe \cup Numbers \cup Blocks \cup Layers
MCFusedPairs == {<<FusedOdd, FusedOdd>>}
MCSoundPairs == {<<Sound, Sound>>}
\* Both nodes alike, or this one sound.
MCPairs == {<<c, c>> : c \in Library} \cup {<<Sound, c>> : c \in Library}

MCArgvs == {[sharded |-> TRUE, tp |-> 2], [sharded |-> FALSE, tp |-> 2], [sharded |-> TRUE, tp |-> 3]}
=============================================================================

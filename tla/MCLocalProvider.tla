-------------------------- MODULE MCLocalProvider --------------------------
(* Models of up to two outputs that exporters produce: pooled or not, widths
   fixed or symbolic, the wanted output first or second, an input the provider
   does not know, ranks and widths it refuses. *)
EXTENDS LocalProviderRefinement

Tensor(name, rank, w, fixed) == [name |-> name, rank |-> rank, width |-> w, fixed |-> fixed]

Hidden(fixed) == Tensor("last_hidden_state", 3, 2, fixed)
Sentence(fixed) == Tensor("sentence_embedding", 2, 3, fixed)
Logits == Tensor("other", 2, 1, TRUE)

OutputLists ==
    {<< >>, <<Logits>>, <<Tensor("other", 4, 2, TRUE)>>, <<Tensor("pooler_output", 2, 0, FALSE)>>,
     <<Tensor("last_hidden_state", 3, 0, FALSE)>>, <<Logits, Hidden(TRUE)>>}
    \cup {<<Hidden(f)>> : f \in BOOLEAN}
    \cup {<<Sentence(f), Hidden(g)>> : f, g \in BOOLEAN}
    \cup {<<Hidden(g), Sentence(f)>> : f, g \in BOOLEAN}

Inputs == {{"input_ids", "attention_mask"}, {"input_ids", "position_ids"}}

\* Models whose every output has a fixed width.
MCFixedGraphs ==
    {g \in [inputs : Inputs, outputs : OutputLists] : \A i \in DOMAIN g.outputs : g.outputs[i].fixed}

MCGraphs == [inputs : Inputs, outputs : OutputLists]
=============================================================================

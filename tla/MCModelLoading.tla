--------------------------- MODULE MCModelLoading ---------------------------
(***************************************************************************)
(* Small instances of ModelLoading for TLC.                                *)
(***************************************************************************)
EXTENDS ModelLoading

Required(heads, hidden) ==
  [hidden_size |-> hidden, intermediate_size |-> 3, num_hidden_layers |-> 2,
   num_attention_heads |-> heads, vocab_size |-> 3]

Rope8 == [factor |-> 8, low_freq_factor |-> 1, high_freq_factor |-> 4,
          original_max_position_embeddings |-> 16]
Rope2 == [factor |-> 2, low_freq_factor |-> 2, high_freq_factor |-> 3,
          original_max_position_embeddings |-> 18]

\* Multi-head without optional keys, grouped, one KV head, a head_dim of its
\* own; tied, not tied, and silent about it.
MCConfigs ==
  { Required(2, 4),
    Required(4, 4) @@ [num_key_value_heads |-> 2, tie_word_embeddings |-> TRUE,
                       rope_scaling |-> Rope8],
    Required(4, 4) @@ [num_key_value_heads |-> 1, head_dim |-> 2,
                       tie_word_embeddings |-> FALSE, rope_scaling |-> Rope2],
    Required(3, 4) @@ [num_key_value_heads |-> 3, head_dim |-> 2,
                       tie_word_embeddings |-> TRUE] }

MCSplitKinds == {"embed_tokens", "k_proj", "up_proj"}
MCWavelengths == 1 .. 24

=============================================================================

---------------------------- MODULE MCSaveRange ----------------------------
(* SaveRange with packets of 20 ms in every framing, sizes on both sides of  *)
(* 252, padding on both sides of 254, and one packet of 120 ms with the most *)
(* frames there can be.  Files of one packet have up to three streams.       *)
EXTENDS SaveRange

S(config, code, vbr, pad, sizes) ==
  [config |-> config, stereo |-> config % 2 = 1, code |-> code, vbr |-> vbr,
   padded |-> pad >= 0, pad |-> IF pad >= 0 THEN pad ELSE 0, sizes |-> sizes]

MCStreams ==
  {S(9, 0, FALSE, -1, <<1>>), S(15, 0, FALSE, -1, <<252>>), S(31, 0, FALSE, -1, <<0>>),
   S(30, 1, FALSE, -1, <<251, 251>>), S(30, 2, FALSE, -1, <<255, 1>>),
   S(29, 3, TRUE, -1, <<1, 253, 0, 256>>), S(28, 3, FALSE, 254, [i \in 1 .. 8 |-> 2]),
   S(31, 3, TRUE, 509, <<1275>>), S(26, 3, FALSE, 0, <<300, 300>>), S(0, 3, TRUE, 253, <<0, 7>>)}

\* For files of two packets.
MCFew == {s \in MCStreams : s.sizes \in {<<252>>, <<1275>>, <<300, 300>>}}

MCMost == S(28, 3, TRUE, 1, [i \in 1 .. 48 |-> (i * 5) % 3])

MCFiles ==
  {<<p>> : p \in UNION {[1 .. n -> MCStreams] : n \in 1 .. 3}}
    \cup {<<p, q>> : p \in [1 .. 2 -> MCFew], q \in [1 .. 2 -> MCFew]}
    \cup {<< <<MCMost>> >>, << <<MCMost, MCMost>> >>}

\* "Op", the first two bytes of both header packets.
MCHeader == <<79, 112>>
=============================================================================

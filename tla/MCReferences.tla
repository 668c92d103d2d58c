---------------------------- MODULE MCReferences ----------------------------
EXTENDS References

\* The corner cases at the width of the task (isqrt32: 30 bits, the numbers
\* of TLC are 32 bits wide).
MCCorners ==
  {<<d, w, CornerWords(d, w)>> :
     <<d, w>> \in {<<"popcount32", 32>>, <<"bitrev16", 16>>, <<"gcd16", 16>>, <<"mul8", 8>>,
                   <<"div16", 16>>, <<"isqrt32", 15>>, <<"crc8", 16>>, <<"xor_cipher16", 16>>,
                   <<"adler32", 4>>, <<"arbiter_rr", 8>>}}

\* Every word of a small width after one that leaves something behind.
MCAfter(d, w, first, words) == {<<d, w, <<first, word>>>> : word \in words}

MCSmall ==
  UNION {MCAfter("popcount32", 5, Ones(5), RandomWords("popcount32", 5)),
         MCAfter("bitrev16", 5, Ones(5), RandomWords("bitrev16", 5)),
         MCAfter("gcd16", 5, <<24, 16>>, RandomWords("gcd16", 5)),
         MCAfter("mul8", 4, <<15, 15>>, RandomWords("mul8", 4)),
         MCAfter("div16", 4, <<15, 2>>, RandomWords("div16", 4)),
         MCAfter("isqrt32", 4, 255, RandomWords("isqrt32", 4)),
         MCAfter("crc8", 9, Ones(9), RandomWords("crc8", 9))}

\* Bytes, signed digits and coordinates at the limits; all requests.
MCSampled ==
  UNION {MCAfter("adler32", 4, <<255, 255, 255, 255>>, [1 .. 4 -> {0, 1, 250, 255}]),
         MCAfter("matvec_2x2_int4", 4, <<8, 8, 8, 8, 8, 8>>, [1 .. 6 -> {1, 7, 8, 15}]),
         MCAfter("ray_hit_2d", 8, <<224, 0, 1, 0>>,
                 {0, 31, 32, 128, 224} \X {0, 32, 127, 225} \X {0, 1, 7, 8, 15} \X {0, 1, 7, 8, 15}),
         MCAfter("arbiter_rr", 8, <<7, 0 .. 7>>, RandomWords("arbiter_rr", 8))}

MCRuns == MCCorners \cup MCSmall \cup MCSampled
=============================================================================

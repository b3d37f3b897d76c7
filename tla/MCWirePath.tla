----------------------------- MODULE MCWirePath -----------------------------
(* Real byte and frame sizes; values that need escapes and the sentinels. *)
EXTENDS WirePath

MCByte == 0..255
MCPktIds == {\h1113, \h7D7E}
MCAppSerial == <<\h11, \h7E, \hA4, \h35>>
MCDevSerial == <<\h7D, \h5E, \h12, \h7E>>
MCPasswords == {<<>>, <<48, 48, 48, 48>>, [i \in 1..12 |-> 64 + i],
                [i \in 1..13 |-> 200 + i], <<\hF5, \hF6, \h89, \h8A, \h8B>>}
MCWords == {<<\h7E, \h7D, 0, 0>>, <<0, \h7E, \h13, \hFF>>, I32_NAN, U32_NAN}
MCCounters == {<<\h7E, 1, 0, \h7D, \h13, 0, 0, 0>>, U64_NAN, U64_MAX, Zeros(8)}
MCLogSizes == {0, 1, 2, 5}
=============================================================================

----------------------------- MODULE MCJsonEdits ----------------------------
(* Documents of the config's shape, with every escape, with bytes beyond ASCII,
   with numbers of every form printf gives them, and with empty lists. *)
EXTENDS JsonEdits

Small(n) == Number(Decimal(n < 0, [i \in 1..1 |-> IF n < 0 THEN -n ELSE n], 1))
Dec(digits, point) == Number(Decimal(FALSE, digits, point))
In(pairs) == Object([i \in DOMAIN pairs |-> Entry(Bytes(pairs[i][1]), pairs[i][2])])

Config == In(<< <<"log", String(Bytes("info"))>>,
                <<"m", In(<< <<"ms", Array(<<Small(9), Dec(<<1, 6>>, 2)>>)>>,
                             <<"p", Dec(<<8, 5>>, 0)>> >>)>> >>)

Slashes == Bytes("// /* \\ \"}")
Accents == Bytes("e") \o <<1, 31, 8, 12>> \o Utf8(233) \o Utf8(8364)

Strings == Object(<<Entry(Slashes, String(Accents)), Entry(Accents, In(<<>>)), Entry(<<>>, Null)>>)

Numbers == Array(<<Small(0), Small(-5), Dec(<<1, 5>>, 1), Dec(<<1>>, 15), Dec(<<1>>, 16),
                   Dec(<<1, 2>>, -4), Dec(<<1, 7>>, 309), Dec(<<3>>, -3)>>)

Lists == In(<< <<"a", Array(<<Array(<<>>), Bool(FALSE), Array(<<In(<<>>), Bool(TRUE)>>)>>)>> >>)

MCValues == {Config, Strings, Numbers, Lists}

MCIgnored ==
  {Bytes("// {\"m\": [\n"), Bytes("/*/ \" */"), <<9, 13, 10, 32>> \o Bytes("/**//***/")}

MCRespellings ==
  {<<Bytes("\"m\""), Bytes("\"\\u006D\"")>>, <<Bytes("\"info\""), Bytes("\"\\u0069nf\\u006f\"")>>,
   <<Bytes("9"), Bytes("+9.0e0")>>, <<Bytes("16"), Bytes("0.16E+2")>>,
   <<Bytes("0.85"), Bytes("85e-2")>>, <<Bytes("0"), Bytes("-.0")>>, <<Bytes("-5"), Bytes("-05.e")>>,
   <<Bytes("1e+15"), Bytes("1000000000000000")>>,
   <<DumpString(Slashes), Bytes("\"\\/\\/ /* \\u005c \\u0022}\"")>>,
   <<DumpString(Accents), Bytes("\"e\\u0001\\u001F\\b\\f\\u00e9\\u20AC\"")>>}
=============================================================================

----------------------------- MODULE MCLibrary -----------------------------
(* Values for Library.cfg: messages, files and texts small enough for TLC. *)
EXTENDS Library, TLC

Text(frags) == [op |-> "text", frags |-> frags]

\* A character cut in two, bytes that are no text, and bytes that are not UTF-8.
MCPeerMessages ==
    {Text(<<<<195>>, <<169>>>>), [op |-> "binary", frags |-> <<<<169>>>>], Text(<<<<169>>>>)}

\* In chunks of two bytes, a whole one, one and a part of another, and none.
MCAppMessages ==
    {[op |-> "text", data |-> <<65, 66>>], [op |-> "binary", data |-> <<65, 66, 67>>],
     [op |-> "close", data |-> <<>>]}

\* A status code and a byte of the reason.
MCCloseCodes == {<<3, 232, 7>>}

MCEntities == (<<108, 116>> :> <<60>>) @@ (<<97, 109, 112>> :> <<38>>)
MCPorts == (<<119, 115>> :> 80) @@ (<<119, 115, 115>> :> 443)
MCTemplateTokens == {"open", "close", "t", "head", "foot", "h", "x", "f", "#include"}
MCFiles == ("head" :> <<"h", "foot", "open", "x", "close">>) @@ ("foot" :> <<"f">>)

\* port, max_header_size and a string.
Port == <<112>>
Size == <<115>>
Name == <<110>>
MCDefaults == (Port :> 8080) @@ (Size :> 16384) @@ (Name :> <<108>>)
MCNumberFields == <<[key |-> Port, bits |-> 16], [key |-> Size, bits |-> 32]>>

Strs(chars, n) == UNION {[1..k -> chars] : k \in 0..n}

UrlPairs == {<<c, f>> : c \in {37, 43, 32, 50, 195}, f \in UNION {D!UrlForms(c) : c \in {37, 43, 32, 50, 195}}}
UrlTexts ==
    {[of |-> "url", chars |-> [i \in DOMAIN s |-> s[i][1]], forms |-> [i \in DOMAIN s |-> s[i][2]]]
        : s \in Strs({p \in UrlPairs : p[2] \in D!UrlForms(p[1])}, 3)}

\* Leading bytes of each length, with what overlong forms (192, 224, 240),
\* surrogates (237) and code points that are too large (245) begin with.
Utf8Texts ==
    {[of |-> "utf8", bytes |-> b] : b \in Strs({65, 128, 160, 192, 195, 224, 237, 240, 245, 248}, 4)}
HtmlTexts == {[of |-> "html", code |-> c] : c \in {9, 65, 127, 128, 233, 2047, 2048, 8364, 65536, 128512}}
SplitTexts == {[of |-> "split", str |-> s, maxParts |-> n] : s \in Strs({97, 44, 32}, 4), n \in 0..3}

UriTexts ==
    {[of |-> "uri", scheme |-> s, host |-> h, port |-> p, path |-> q, query |-> r] :
        s \in DOMAIN MCPorts, h \in {<<104>>, <<104, 46, 105>>}, p \in {{}, {80}, {65535}},
        q \in {<<47>>, <<47, 97>>, <<47, 97, 58, 47>>}, r \in {<<>>, <<63, 97, 47>>, <<35, 98>>}}

TemplateTexts == {[of |-> "template", doc |-> d] : d \in Strs({"open", "close", "t", "head", "#include"}, 4)}

\* A file with a line for each field that is there, in one order or the other,
\* with or without a comment, and a line that is none.
Num(blanks, sign, value, tail) == [blanks |-> blanks, sign |-> sign, value |-> value, tail |-> tail]
PortNumbers ==
    {Num(<<>>, <<>>, {n}, <<>>) : n \in {0, 81, 65535, 65536}}
    \cup {Num(<<32, 9>>, <<43>>, {81}, <<>>), Num(<<>>, <<45>>, {1}, <<>>),
          Num(<<>>, <<>>, {57}, <<120>>), Num(<<>>, <<>>, {}, <<120>>), Num(<<32>>, <<45>>, {}, <<>>)}
SizeNumbers == {Num(<<>>, <<>>, {65536}, <<>>), Num(<<32>>, <<>>, {9}, <<46, 53>>)}
Configs ==
    {[numbers |-> p @@ s, config |-> [k \in DOMAIN (p @@ s) |-> NumberText((p @@ s)[k])] @@ n] :
        p \in {<<>>} \cup {Port :> num : num \in PortNumbers},
        s \in {<<>>} \cup {Size :> num : num \in SizeNumbers},
        n \in {Name :> <<97>>, Name :> <<97, 32, 98>>}}
    \cup {[numbers |-> Port :> num, config |-> Port :> NumberText(num)] : num \in PortNumbers}
Line(key, value, tail) == key \o <<32>> \o value \o tail
ConfigTexts ==
    {LET keys == SelectSeq(order, LAMBDA k : k \in DOMAIN c.config)
         written(end, third) ==
             D!InsertAt([i \in DOMAIN keys |-> Line(keys[i], c.config[keys[i]], end)], at, third)
     IN [of |-> "config", config |-> c.config, numbers |-> c.numbers,
         lines |-> written(tail, between[1]), says |-> written(<<>>, between[2])] :
        c \in Configs, order \in {<<Port, Size, Name>>, <<Name, Size, Port>>},
        tail \in {<<>>, <<32>>, <<32, 35, 112, 32>>}, at \in 1..2,
        between \in {<<<<>>, <<>>>>, <<<<35>>, <<>>>>, <<<<9, 120, 32, 121>>, <<120, 32, 121>>>>}}

\* Up to three routes, which match the path or do not, for a method or for
\* a controller that overrides one or none.
Routes ==
    {[paths |-> p, method |-> m, handler |-> {}] : p \in SUBSET {"/a"}, m \in {"get", "post"}}
    \cup {[paths |-> p, method |-> "any", handler |-> h] : p \in SUBSET {"/a"}, h \in {{}, {"get"}}}
RouteTexts ==
    {[of |-> "routes", routes |-> r, path |-> "/a", method |-> m] :
        r \in Strs(Routes, 3), m \in {"get", "post", "unknown"}}

MCTexts ==
    UrlTexts \cup Utf8Texts \cup HtmlTexts \cup SplitTexts \cup UriTexts
    \cup TemplateTexts \cup ConfigTexts \cup RouteTexts
=============================================================================

----------------------------- MODULE Documents -----------------------------
(***************************************************************************)
(* The documents the library reads: templates of HTML and C++              *)
(* (templating/templ.cpp), configuration files (system/ini_reader.cpp,     *)
(* net/http_config.cpp), and the routes a request is matched with          *)
(* (net/http_router.cpp, net/http_controller.cpp).                         *)
(*                                                                         *)
(* A template is a sequence of tokens: "open" is <?cpp, "close" is ?>, a   *)
(* member of IncludePaths the include tag of that file, CppInclude an      *)
(* #include directive; anything else is text.                              *)
(***************************************************************************)
EXTENDS Strings, FiniteSets, Functions

CONSTANTS
    IncludePaths,       \* files templates may include
    CppInclude,         \* a token: an #include directive of a template
    RequiredIncludes    \* the directives every generated file begins with

---------------------------------------------------------------------------
(* Templates.                                                              *)

\* std::string::find of a token, 0 without a match.
TokenFrom(doc, token, i) ==
    LET at == {j \in i..Len(doc) : doc[j] = token} IN IF at = {} THEN 0 ELSE Min(at)

\* emit_byte_array and emit_code, called for parts that are not empty.
Emit(kind, part) == IF part = <<>> THEN <<>> ELSE <<[kind |-> kind, part |-> part]>>

parse(doc) ==
    LET scan[at \in (1..(Len(doc) + 1)) \X BOOLEAN] ==
            LET pos == at[1]
                inCppMode == at[2]
                start == TokenFrom(doc, "open", pos)
                end == TokenFrom(doc, "close", start)
                html == Emit("html", SubSeq(doc, pos, start - 1))
            IN IF pos > Len(doc) THEN <<>>
               ELSE IF start = 0 THEN Emit("html", From(doc, pos))
               ELSE IF ~inCppMode THEN html \o scan[<<start, TRUE>>]
               ELSE IF end = 0 THEN html \o Emit("cpp", From(doc, start))
               ELSE html \o Emit("cpp", SubSeq(doc, start + 1, end - 1)) \o scan[<<end + 1, FALSE>>]
    IN scan[<<1, TokenFrom(doc, "open", 1) = 0>>]

\* Each token but the delimiters, with the language it is in.
Languages(doc) ==
    LET state[i \in 0..Len(doc)] ==
            IF i = 0 THEN [kind |-> "html", out |-> <<>>]
            ELSE LET s == state[i - 1]
                 IN CASE doc[i] = "open" /\ s.kind = "html" -> [kind |-> "cpp", out |-> s.out]
                      [] doc[i] = "close" /\ s.kind = "cpp" -> [kind |-> "html", out |-> s.out]
                      [] OTHER -> [kind |-> s.kind, out |-> Append(s.out, <<s.kind, doc[i]>>)]
    IN state[Len(doc)]

\* The same of what parse returns.
Emitted(parts) ==
    FlattenSeq([i \in DOMAIN parts |->
                   [j \in DOMAIN parts[i].part |-> <<parts[i].kind, parts[i].part[j]>>]])

\* Mutant: the tag stays in the text.
IncludeOnceKeepsTag(doc, files) ==
    LET tags == {i \in DOMAIN doc : doc[i] \in IncludePaths}
        i == Min(tags)
    IN IF tags = {} \/ Len(doc) > 20 THEN {doc}
       ELSE {SubSeq(doc, 1, i - 1) \o files[doc[i]] \o From(doc, i)}

\* One pass of the loop of extract_include_tags_and_replace.
IncludeOnce(doc, files) ==
    LET tags == {i \in DOMAIN doc : doc[i] \in IncludePaths}
        i == Min(tags)
    IN CASE tags = {} -> {doc}
         [] tags # {} /\ doc[i] \in DOMAIN files ->
                {SubSeq(doc, 1, i - 1) \o files[doc[i]] \o From(doc, i + 1)}
         [] OTHER -> {}

\* The text after so many passes, {} when a file is missing.  The code's
\* loop has no bound: it does not end when a file includes itself.
Included(doc, files, passes) ==
    LET texts[n \in 0..passes] ==
            IF n = 0 THEN {doc} ELSE UNION {IncludeOnce(d, files) : d \in texts[n - 1]}
    IN texts[passes]

\* What the tags stand for, files in files to a depth.
Inlined(doc, files, depth) ==
    LET inline[n \in 0..depth] ==
            [d \in {doc} \cup Range(files) |-> FlattenSeq([i \in DOMAIN d |->
                IF d[i] \in IncludePaths /\ n > 0 THEN inline[n - 1][files[d[i]]] ELSE <<d[i]>>])]
    IN inline[depth][doc]

\* A token is taken out wherever it is: std::regex_replace by nothing.
Without(seq, token) ==
    FlattenSeq([i \in DOMAIN seq |-> IF seq[i] = token THEN <<>> ELSE <<seq[i]>>])

extract_cpp_includes_and_remove(code) ==
    [includes |-> RequiredIncludes \cup {t \in Range(code) : t = CppInclude},
     code |-> Without(code, CppInclude)]

\* The view's source: HTML is emitted as a byte array, so that a directive
\* is found in the C++ parts only.
create_template(doc, files, passes) ==
    {LET parts == parse(text)
         cpp == FlattenSeq([i \in DOMAIN parts |->
                    IF parts[i].kind = "cpp" THEN parts[i].part ELSE <<>>])
     IN [includes |-> extract_cpp_includes_and_remove(cpp).includes,
         body |-> [i \in DOMAIN parts |->
                      IF parts[i].kind = "cpp"
                         THEN [parts[i] EXCEPT !.part = extract_cpp_includes_and_remove(@).code]
                         ELSE parts[i]]]
     : text \in Included(doc, files, passes)}

---------------------------------------------------------------------------
(* Configuration files: lines of characters.                               *)

\* Mutant: the blanks at the ends stay.
strip_commentOnly(line) ==
    LET at == FindFrom(line, <<Hash>>, 1) IN IF at = 0 THEN line ELSE SubSeq(line, 1, at - 1)

strip_comment(line) ==
    LET at == FindFrom(line, <<Hash>>, 1)
    IN trim(IF at = 0 THEN line ELSE SubSeq(line, 1, at - 1))

\* A line is to say what is in it but blanks before and behind, and a comment.
Says(line, said) ==
    /\ said # <<>> => said[1] \notin Blank /\ said[Len(said)] \notin Blank
    /\ \A k \in 1..Len(said) : said[k] # Hash
    /\ \E i \in 1..(Len(line) + 1), j \in 0..Len(line) :
          /\ i <= j + 1 /\ said = SubSeq(line, i, j)
          /\ \A k \in 1..(i - 1) : line[k] \in Blank
          /\ \A k \in (j + 1)..Len(line) : line[k] \in Blank \/ \E h \in (j + 1)..k : line[h] = Hash

\* The fields of a file, {} for an exception: no lines, or a key twice.
\* A required field that is missing is not noticed.
read_file(lines, required) ==
    LET parts(i) == split(strip_comment(lines[i]), Space, 2)
        lead == {i \in DOMAIN lines : Len(parts(i)) = 2 /\ parts(i)[1] \in required}
        keys == {parts(i)[1] : i \in lead}
    IN IF lines = <<>> \/ Cardinality(keys) # Cardinality(lead) THEN {}
       ELSE {[k \in keys |-> parts(CHOOSE i \in lead : parts(i)[1] = k)[2]]}

\* Mutant: the strings are assigned once the numbers have been read.
load_from_fileAllOrNothing(lines, config, numbers) ==
    LET fields == read_file(lines, DOMAIN config)
        field(k) == LET f == CHOOSE f \in fields : TRUE IN IF k \in DOMAIN f THEN f[k] ELSE <<>>
        read(i) == UnsignedRead(field(numbers[i].key), numbers[i].bits)
    IN IF fields = {} \/ \E i \in DOMAIN numbers : ~read(i).ok THEN [ok |-> FALSE, config |-> config]
       ELSE [ok |-> TRUE, config |->
                [k \in DOMAIN config |->
                    IF \E i \in DOMAIN numbers : numbers[i].key = k
                       THEN CHOOSE n \in read(CHOOSE i \in DOMAIN numbers : numbers[i].key = k).stored : TRUE
                       ELSE field(k)]]

\* http_config::load_from_file into config, with the numbers [key, bits] in
\* the order in which they are looked at: the strings are assigned first, and
\* the first number that is refused ends it, with what it has stored.  A field
\* that is missing is empty.
load_from_file(lines, config, numbers) ==
    LET fields == read_file(lines, DOMAIN config)
        field(k) == LET f == CHOOSE f \in fields : TRUE IN IF k \in DOMAIN f THEN f[k] ELSE <<>>
        read(i) == UnsignedRead(field(numbers[i].key), numbers[i].bits)
        refused == {i \in DOMAIN numbers : ~read(i).ok}
        stored(k) == UNION {read(i).stored : i \in
                        {j \in DOMAIN numbers : numbers[j].key = k /\ \A r \in refused : j <= r}}
    IN IF fields = {} THEN [ok |-> FALSE, config |-> config]
       ELSE [ok |-> refused = {},
             config |-> [k \in DOMAIN config |->
                            IF \A i \in DOMAIN numbers : numbers[i].key # k THEN field(k)
                            ELSE IF stored(k) = {} THEN config[k] ELSE CHOOSE n \in stored(k) : TRUE]]

---------------------------------------------------------------------------
(* Routes: [paths, method, handler], the paths a regular expression        *)
(* matches; the method is "any" for a controller, whose methods answer 405 *)
(* unless they are overridden.                                             *)

\* Mutant: a route with another method is passed over for one with this one.
process_requestByMethod(routes, path, method) ==
    LET matching == {i \in DOMAIN routes : path \in routes[i].paths}
        allowed == {i \in matching : routes[i].method \in {method, "any"}}
        r == routes[Min(allowed)]
    IN CASE matching = {} -> "not routed"
         [] matching # {} /\ allowed = {} -> "405"
         [] allowed # {} /\ r.method = "any" ->
                IF method = "unknown" THEN "501" ELSE IF method \in r.handler THEN "controller" ELSE "405"
         [] OTHER -> "handler"

process_request(routes, path, method) ==
    LET matching == {i \in DOMAIN routes : path \in routes[i].paths}
        r == routes[Min(matching)]
    IN CASE matching = {} -> "not routed"
         [] matching # {} /\ r.method = "any" ->
                IF method = "unknown" THEN "501" ELSE IF method \in r.handler THEN "controller" ELSE "405"
         [] OTHER -> IF r.method = method THEN "handler" ELSE "405"
=============================================================================

-------------------------------- MODULE Resp --------------------------------
(***************************************************************************)
(* The codec of src/protocol/resp.rs over a stream of units.  A unit is a  *)
(* tag byte, a separator, a numeral or a word; what parse tells apart is   *)
(* which of these it meets and where the stream ends.  The length of a     *)
(* bulk string counts its units.                                           *)
(***************************************************************************)
EXTENDS Integers, SequencesExt

CRLF == <<"CR", "LF">>

\* The integers whose decimal form is a unit of the stream; other lines do not parse.
Numeral == -1..9

Simple(data)  == [type |-> "Simple", data |-> data]
Error(data)   == [type |-> "Error", data |-> data]
Integer(n)    == [type |-> "Integer", value |-> n]
Bulk(data)    == [type |-> "Bulk", data |-> data]
Null          == [type |-> "Null"]
Array(items)  == [type |-> "Array", items |-> items]

-----------------------------------------------------------------------------
(* Decoding: a parser returns a value and the position behind it, or fails. *)

Parsed(value, pos) == [result |-> "Ok", value |-> value, pos |-> pos]
Incomplete == [result |-> "Incomplete"]
Invalid    == [result |-> "Invalid"]

\* The ? operator: go on with what r has parsed, or return its failure.
Then(r, Continue(_, _)) == IF r.result = "Ok" THEN Continue(r.value, r.pos) ELSE r

\* Slip: a carriage return ends the line, whether its line feed is there or not.
line_to_cr(buf, pos) ==
    LET ends == {i \in pos..Len(buf) : buf[i] = "CR"}
    IN IF ends = {} THEN Incomplete
       ELSE Parsed(SubSeq(buf, pos, Min(ends) - 1), Min(ends) + 2)

line(buf, pos) ==
    LET ends == {i \in pos..Len(buf) - 1 : SubSeq(buf, i, i + 1) = CRLF}
    IN IF ends = {} THEN Incomplete
       ELSE Parsed(SubSeq(buf, pos, Min(ends) - 1), Min(ends) + 2)

take(buf, pos, n) ==
    IF pos + n - 1 > Len(buf) THEN Incomplete
    ELSE Parsed(SubSeq(buf, pos, pos + n - 1), pos + n)

parse_int(l, pos) ==
    IF \E n \in Numeral : l = <<ToString(n)>>
    THEN Parsed(CHOOSE n \in Numeral : l = <<ToString(n)>>, pos)
    ELSE Invalid

\* The words of an inline command.
words(l) ==
    LET starts == {i \in 1..Len(l) : l[i] # "SP" /\ (i = 1 \/ l[i - 1] = "SP")}
        end(i) == Min({j \in i..Len(l) : j = Len(l) \/ l[j + 1] = "SP"})
        from   == SetToSortSeq(starts, <)
    IN [k \in DOMAIN from |-> Bulk(SubSeq(l, from[k], end(from[k])))]

RECURSIVE parse(_, _), parse_items(_, _, _, _)

\* n more items of an array, behind those read so far.
parse_items(buf, pos, n, items) ==
    IF n = 0 THEN Parsed(Array(items), pos)
    ELSE Then(parse(buf, pos),
              LAMBDA f, p : parse_items(buf, p, n - 1, Append(items, f)))

parse(buf, pos) ==
    IF pos > Len(buf) THEN Incomplete
    ELSE LET tag    == buf[pos]
             length == Then(line(buf, pos + 1), parse_int)
         IN CASE tag = "+" -> Then(line(buf, pos + 1), LAMBDA l, p : Parsed(Simple(l), p))
              [] tag = "-" -> Then(line(buf, pos + 1), LAMBDA l, p : Parsed(Error(l), p))
              [] tag = ":" -> Then(length, LAMBDA n, p : Parsed(Integer(n), p))
              [] tag = "$" -> Then(length, LAMBDA n, p :
                    IF n < 0 THEN Parsed(Null, p)
                    ELSE Then(take(buf, p, n), LAMBDA data, q :
                             Then(take(buf, q, 2), LAMBDA end, r :
                                 IF end = CRLF THEN Parsed(Bulk(data), r) ELSE Invalid)))
              [] tag = "*" -> Then(length, LAMBDA n, p :
                    IF n < 0 THEN Parsed(Null, p) ELSE parse_items(buf, p, n, <<>>))
              [] OTHER -> Then(line(buf, pos), LAMBDA l, p : Parsed(Array(words(l)), p))

\* Frame::decode; after a frame, the buffer is what follows it.
decode(buf) == parse(buf, 1)
advance(buf, pos) == SubSeq(buf, pos, Len(buf))

-----------------------------------------------------------------------------
(* Encoding *)

\* Slip: nothing ends the data.
encode_bulk_open(data) == <<"$", ToString(Len(data))>> \o CRLF \o data

encode_bulk(data) == <<"$", ToString(Len(data))>> \o CRLF \o data \o CRLF

RECURSIVE encode(_)
encode(f) ==
    CASE f.type = "Simple"  -> <<"+">> \o f.data \o CRLF
      [] f.type = "Error"   -> <<"-">> \o f.data \o CRLF
      [] f.type = "Integer" -> <<":", ToString(f.value)>> \o CRLF
      [] f.type = "Bulk"    -> encode_bulk(f.data)
      [] f.type = "Null"    -> <<"$", "-1">> \o CRLF
      [] f.type = "Array"   -> <<"*", ToString(Len(f.items))>> \o CRLF
                                 \o FlattenSeq([i \in DOMAIN f.items |-> encode(f.items[i])])

=============================================================================

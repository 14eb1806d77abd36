--------------------------- MODULE ClientCommands ---------------------------
(***************************************************************************)
(* src/protocol/command.rs: what a decoded frame asks for.  A command is a *)
(* record with its kind; an error is one of kind "Err" with what           *)
(* Error::client_message makes of it in src/error.rs: which error it is,   *)
(* and the words of the client that it quotes.                             *)
(***************************************************************************)
EXTENDS Resp

\* The upper-case form of the words that may come in lower case.
Capital == [w \in {"get", "set", "status"} |->
               CASE w = "get" -> "GET" [] w = "set" -> "SET" [] OTHER -> "STATUS"]

Err(message) == [kind |-> "Err", message |-> message]

uppercase(data) == [i \in DOMAIN data |-> IF data[i] \in DOMAIN Capital
                                          THEN Capital[data[i]] ELSE data[i]]

cluster(args) ==
    LET sub == IF args = <<>> THEN <<>> ELSE uppercase(args[1])
    IN CASE sub \in {<<"STATUS">>, <<"INFO">>}   -> [kind |-> "ClusterStatus"]
         [] sub \in {<<"MEMBERS">>, <<"NODES">>} -> [kind |-> "ClusterMembers"]
         [] OTHER -> Err(<<"UnknownCommand", "CLUSTER">> \o sub)

\* Slip: arguments past the expected ones are let through.
at_least(args, n) == Len(args) >= n

exact(args, n) == Len(args) = n

assemble(name, args) ==
    CASE name = <<"PING">> /\ Len(args) <= 1 -> [kind |-> "Ping", message |-> args]
      [] name = <<"GET">> /\ exact(args, 1) -> [kind |-> "Get", key |-> args[1]]
      [] name = <<"SET">> /\ exact(args, 2) ->
            [kind |-> "Set", key |-> args[1], value |-> args[2]]
      [] name = <<"DEL">> /\ args # <<>> -> [kind |-> "Del", keys |-> ToSet(args)]
      [] name = <<"CLUSTER">> -> cluster(args)
      [] name = <<"COMMAND">> -> [kind |-> "Command"]
      [] name \in {<<"PING">>, <<"GET">>, <<"SET">>, <<"DEL">>} -> Err(<<"WrongArity">>)
      [] OTHER -> Err(<<"UnknownCommand">> \o name)

\* bulk_to_bytes accepts these.
is_string(f) == f.type \in {"Bulk", "Simple"}

from_frame(f) ==
    IF /\ f.type = "Array" /\ f.items # <<>>
       /\ \A i \in DOMAIN f.items : is_string(f.items[i])
    THEN assemble(uppercase(f.items[1].data),
                  [i \in 1..Len(f.items) - 1 |-> f.items[i + 1].data])
    ELSE Err(<<"Protocol">>)

is_write(command) == command.kind \in {"Set", "Del"}

=============================================================================

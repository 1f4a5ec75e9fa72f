----------------------------- MODULE MCSettings ----------------------------
(***************************************************************************)
(* Command lines for Settings.  An int has 4096 values here, a port 1024.  *)
(***************************************************************************)
EXTENDS Settings

Words(list) == [i \in DOMAIN list |-> <<list[i]>>]

SomeDashed == {"--"} \cup DOMAIN Switches \cup DOMAIN Valued \cup {"--bogus"}
SomeNumbers == "0" :> 0 @@ "16" :> 16 @@ "300" :> 300 @@ "4099" :> 4099
SomeSizes == SomeNumbers @@ "2k" :> 2048

SomeLines ==
  {<<>>,
   Words(<<"a.b", "--concurrency", "16", "--ci">>),
   Words(<<"mirror", "a.b", "--user-agent", "--ci">>),
   Words(<<"clone", "--list", "--concurrency", "300">>),
   Words(<<"clone", "--port", "16", "--", "--list">>),
   << <<"serve">>, <<"site">>, <<"--port", "4099">>, <<"--directory">>, <<"other">> >>,
   << <<"mirror">>, <<"--same-origin">>, <<"--cross-origin", "x">>, <<"a.b">>, <<"--max-files">> >>,
   Words(<<"clone", "--max-files", "2k", "--dry-run", "--max-files", "16">>),
   Words(<<"config", "set", "concurrency", "16">>),
   Words(<<"config", "set", "same_origin", "false">>),
   Words(<<"config", "set", "user_agent", "me">>),
   Words(<<"config", "set", "port", "2k">>),
   Words(<<"config", "unset", "concurrency">>),
   Words(<<"config", "get", "--", "port">>),
   Words(<<"config", "set", "port">>),
   Words(<<"config", "show", "--help">>),
   Words(<<"nonsense", "--bogus">>)}

SomeContents ==
  {Absent, [kind |-> "broken", keys |-> <<>>], [kind |-> "other", keys |-> <<>>],
   Object("port" :> Number(1025) @@ "color" :> Text("no"))}
=============================================================================

-------------------------- MODULE MCConnectorLife --------------------------
(* A connector with two holders and up to four endpoints, a plain, a       *)
(* secure and an invalid url; decode_url on every url of up to five tokens. *)
EXTENDS ConnectorLife

Tokens == {"a", "/", ":", "?", "#", " "}

MCUrlsDialled == {[scheme |-> "ws",  rest |-> <<"a">>],
                  [scheme |-> "wss", rest |-> <<"a", ":", "a", "/">>],
                  [scheme |-> "wss", rest |-> <<":", "a">>]}

MCUrls == [scheme : {"ws", "wss", "http", "https", "ftp"},
               rest : UNION {[1 .. i -> Tokens] : i \in 0 .. 5}]
============================================================================

---------------------------- MODULE MCBase64Tool ----------------------------
(***************************************************************************)
(* Values for Base64Tool's constants: three files, one of them under two   *)
(* names; a message that ends inside a group, and a text with a newline    *)
(* and without padding.                                                    *)
(***************************************************************************)
EXTENDS Base64Tool, TLC

CONSTANTS messageFile, textFile, otherFile, aliasName

MCPaths  == {messageFile, textFile, otherFile, aliasName}
MCFileOf == [p \in MCPaths |-> IF p = aliasName THEN messageFile ELSE p]

MCCrumb == ((1..3) \X (1..4)) \cup {Zero}

MCMessage == << << <<1, 1>>, <<1, 2>>, <<1, 3>>, <<1, 4>> >>,
                << <<2, 1>>, <<2, 2>>, <<2, 3>>, <<2, 4>> >> >>
MCText    == << << <<3, 1>>, <<3, 2>>, <<3, 3>> >>, NL,
                << <<3, 4>>, Zero, Zero >> >>

MCDisks == { (messageFile :> MCMessage @@ textFile :> NoFile @@ otherFile :> NoFile),
             (messageFile :> MCMessage @@ textFile :> MCText @@ otherFile :> NoFile) }
=============================================================================

------------------------------ MODULE MCLanes -------------------------------
(***************************************************************************)
(* Values for Lanes' constants: any byte in one place, and any character   *)
(* in one place, among neighbours that set all and none of the bits a mask *)
(* might let through.                                                      *)
(***************************************************************************)
EXTENDS Lanes

MCAround == {0, 85, 255}

MCTriples == UNION { {<<x, a, b>>, <<a, x, b>>, <<a, b, x>>} :
                        x \in Octet, a \in MCAround, b \in MCAround }

MCFill == {65, 47, 85}   \* 'A', '/', 'U'

MCQuads == UNION { {<<c, f, f, g>>, <<f, c, g, f>>, <<f, g, c, f>>, <<g, f, f, c>>} :
                        c \in Octet, f \in MCFill, g \in MCFill }
=============================================================================

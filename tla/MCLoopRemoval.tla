---------------------------- MODULE MCLoopRemoval ----------------------------
EXTENDS LoopRemoval

T(p, q) == [ends |-> <<p, q>>, locked |-> FALSE]
K(p, q) == [ends |-> <<p, q>>, locked |-> TRUE]
A == <<0, 0>>
B == <<6, 0>>
C == <<2, 0>>
D == <<4, 0>>
E == <<2, 2>>
F == <<4, 2>>
MCPoints == {A, B, C, D, E, F}
MCPads == {A, B}
MCStarts == {A, C, E}
MCBoards == {<<T(A, B)>>,
             <<K(A, B), T(A, C), T(C, E), T(E, B)>>,
             <<T(A, C), T(D, C), T(D, B), T(C, E), T(F, E), T(F, D)>>,
             <<T(C, A), T(C, E), T(E, F), T(F, D), T(D, B)>>,
             <<T(A, C), T(C, E), T(E, F)>>,
             <<T(A, C), T(C, D)>>,
             <<T(C, D), T(A, E), T(E, B)>>}
=============================================================================

--------------------------- MODULE MCExpectations ---------------------------
(***************************************************************************)
(* Two interfaces, one implementing the other, a mock of each, and the     *)
(* compositions over them in which a test is followed beyond EnterStage.   *)
(***************************************************************************)
EXTENDS Expectations

CONSTANTS b1, b2, Reader, ReadWriter, MockReader, MockReadWriter

MCTypes == {Reader, ReadWriter, MockReader, MockReadWriter}
MCInterfaces == {Reader, ReadWriter}
MCImplements ==
    {<<Reader, Reader>>, <<ReadWriter, ReadWriter>>, <<ReadWriter, Reader>>,
     <<MockReader, Reader>>, <<MockReadWriter, Reader>>, <<MockReadWriter, ReadWriter>>}

One == <<Reader, MockReader>>
Two == <<ReadWriter, MockReadWriter>>

\* A mock; two in one builder, sharing a reporter; two in builders of their own.
MCFollowed ==
    {b1 :> p[1] @@ b2 :> p[2] :
        p \in {<< <<One>>, <<>> >>, << <<One, Two>>, <<>> >>, << <<One>>, <<Two>> >>}}
=============================================================================

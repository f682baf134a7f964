-------------------------- MODULE MCBinaryGenerator -------------------------
(* A small instance of BinaryGenerator.                                    *)
EXTENDS BinaryGenerator

CONSTANTS codeX, codeY

\* Stems 1 to 4.  The contract that draws address 1 collides with genesis,
\* shares its keys and must be drawn again; two accounts share a code.
MCGenesis == {Account(1, << <<2, 0>>, <<2, 1>> >>, codeX, FALSE)}
MCEOADraws == <<Account(2, << <<4, 0>> >>, NoCode, TRUE)>>
MCContractDraws ==
    <<Account(3, << <<3, 0>> >>, codeX, TRUE),
      Account(1, << <<2, 0>>, <<2, 1>> >>, codeY, TRUE),
      Account(4, << <<1, 0>>, <<1, 1>> >>, codeY, TRUE),
      Account(5, << <<5, 0>> >>, NoCode, TRUE)>>
MCMilestones == <<1, 3>>
=============================================================================

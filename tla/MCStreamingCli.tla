--------------------------- MODULE MCStreamingCli ---------------------------
EXTENDS StreamingCli, TLC

AllRequests == {<<"start", 1>>, <<"data", 1>>, <<"data", 2>>, <<"close", 2>>, <<"exec", 2>>}
=============================================================================

----------------------------- MODULE MCEventLoop -----------------------------
EXTENDS EventLoop

\* An event a peeker removes, an error and a motion; or a ConfigureNotify
\* among two motions.
MCKindings == {<<"expose", "error", "XI_Motion">>, <<"configure", "XI_Motion", "XI_Motion">>}
MCTraffic == {{3}, {2, 3}}
MCCompressible == {"XI_Motion", "configure"}
=============================================================================

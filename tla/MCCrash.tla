-------------------------------- MODULE MCCrash --------------------------------
\* TLC instance of FsCrash: the calls made.
EXTENDS FsCrash

\* Directories and files made and files removed in a root that outgrows its block.
CrashCalls ==
  {<<"f_mkdir", <<>>, "d">>, <<"f_open_write", <<>>, "f">>,
   <<"f_remove", <<>>, "f">>, <<"f_open_write", <<"d">>, "f">>}
================================================================================

----------------------------- MODULE MCFileSystem -----------------------------
\* TLC instances of FileSystem: the calls made in each run.
EXTENDS FileSystem

\* Everything happens in the root directory, which grows past its first block.
SpillCalls ==
  {<<"f_mkdir", <<>>, "d">>, <<"f_open_write", <<>>, "f">>, <<"f_open_write", <<>>, "g">>,
   <<"f_open_read", <<>>, "f">>, <<"restart", <<>>, "">>}

\* Files come and go in the root and in one directory, also by way of f_rmdir.
RemoveCalls ==
  {<<op, w[1], w[2]>> : op \in {"f_open_write", "f_remove"},
                        w \in {<< <<>>, "f" >>, << <<"d">>, "f" >>, << <<"d">>, "g" >>}}
    \cup {<<"f_mkdir", <<>>, "d">>, <<"f_rmdir", <<>>, "d">>, <<"f_opendir", <<"d">>, "">>}

\* An empty directory is made and removed.
EmptyDirCalls == {"f_mkdir", "f_remove"} \X {<<>>} \X {"d"}
================================================================================

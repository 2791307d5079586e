------------------------------- MODULE MCFs --------------------------------
\* The instance of Fs that TLC checks: two processes, three inodes, two names.
EXTENDS Fs, TLC

CONSTANTS p1, p2

\* One process makes directories and links and removes names, the other creates and
\* opens files and changes directory.  mknod differs from creat in the type only.
MCCalls == (p1 :> {"mkdir", "link", "unlink"}) @@ (p2 :> {"creat", "open", "chdir"})
=============================================================================

----------------------------- MODULE MCFileLog -----------------------------
\* FileLog with two payloads and a segment file of a few chunks: long enough
\* for a failed write, a record behind it, and two records before and after.
EXTENDS FileLog
=============================================================================

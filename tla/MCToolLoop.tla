----------------------------- MODULE MCToolLoop -----------------------------
EXTENDS ToolLoop

Call(op, path, host) == [op |-> op, path |-> path, host |-> host]
MCCalls ==
  {Call("fs_read", "in", "none"), Call("fs_write", "in", "none"), Call("fs_write", "risky", "none"),
   Call("fs_write", "out", "none"), Call("net_fetch", "none", "wiki"),
   Call("mcp_tool", "none", "none"), Call("git_commit", "none", "none"),
   Call("shell_exec", "none", "none")}
MCOptIns == {{}, {"fs_write", "vcs_write"}, {"net_fetch"}}
=============================================================================

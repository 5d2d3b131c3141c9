------------------------------- MODULE MCDisk -------------------------------
EXTENDS Disk
P(s, n) == [start |-> s, size |-> n]
Table(k, entries) == [kind |-> k, entries |-> entries, array_lba |-> 1, entry_size |-> 128]
MCTables == {Table("none", <<>>), Table("mbr", <<P(2, 3), NoEntry, P(6, 2)>>), Table("gpt", <<NoEntry, P(3, 4)>>)}
MCVolumes == {<<1, 4>>, <<2, 5>>}
=============================================================================

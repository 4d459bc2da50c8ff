\* Two messages of em_send may come too early: the send fails while there is no
\* socket, and the scheduler thread writes the status after the network thread
\* has connected.
CONSTANTS
    Fd = {1, 2, 3}
    MaxTrouble = 2
SPECIFICATION LiveSpec
PROPERTY ConnectionIsReported

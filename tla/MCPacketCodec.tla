---------------------------- MODULE MCPacketCodec ----------------------------
EXTENDS PacketCodec

CONSTANTS b, e

\* Data that compression shortens (the length of the uncompressed data does not
\* fit into its field), data that it does not, and data that was compressed before.
SomePayloads == {<<>>, <<b>>, <<b, b, b>>, Compressed("zlib", <<b>>)}

\* The length of the last does not fit into its field.
SomeHeaders == {<<>>, <<e>>, <<e, e>>}
=============================================================================
